---- MODULE Spec2Model ----
(***************************************************************************)
(* Model of the Igra KAS bridge (argonmining/igra-kas-bridge):             *)
(*   bridge.ts   - Entry payload codec, validation, bridge orchestration   *)
(*   tx-miner.ts - RPC state, transaction builder, TX ID miner             *)
(*   config.ts   - constants and address grammar                           *)
(*   kastle.ts   - the external signer                                     *)
(*                                                                         *)
(* Representation of values                                                *)
(*   string     : a sequence of one-character strings                      *)
(*   Uint8Array : a sequence of integers 0..255                            *)
(*   JS number  : an integer n is the pair <<hi, lo>> with                 *)
(*                n = hi * 65536 + lo and lo \in 0..65535 (hi may be       *)
(*                negative); every integer has exactly one such pair, so   *)
(*                a uint32, an int32 and 2^32 itself are all values        *)
(*   bigint     : a non-negative bigint below 2^64 is four 16-bit limbs,   *)
(*                least significant first                                  *)
(*   sompi amounts inside the transaction builder are plain integers       *)
(*   (bigint arithmetic is exact, so only the magnitude is bounded).       *)
(***************************************************************************)
EXTENDS Integers, Sequences, FiniteSets, TLC

VARIABLES
    codec,          \* the payload codec applied to one drawn input
    builder,        \* the transaction builder applied to one drawn input
    conversion,     \* the amount conversion applied to one drawn input
    rpc,            \* the RPC functions of tx-miner.ts called on their own
    wasmInit,       \* kaspa-wasm.ts: position of the initKaspaWasm call
    ui,             \* main.ts: what handleBridge did with the form
    pc,             \* position of the bridge attempt in progress
    call,           \* arguments of the executeBridgeWithMining call
    wasmInitialized,\* kaspa-wasm.ts: module flag
    rpcClient,      \* tx-miner.ts: module state, "null" or "client"
    isConnected,    \* tx-miner.ts: module state
    ledger,         \* the external canonical-identifier function in force
    mining,         \* locals of mineTxId: utxos, start nonce, nonce, i
    miningResult,   \* what mineTxId returned, or NoValue
    signerCalls,    \* the txJson arguments handed to signAndBroadcastTransaction
    fallback,       \* locals of executeBridge: nonce, payloadHex, decoded
    sendCalls,      \* the arguments handed to sendKaspaWithPayload
    progress,       \* messages delivered to the caller's onProgress callback
    outcome         \* how the attempt settled for its caller

vars == <<codec, builder, conversion, rpc, wasmInit, ui, pc, call, wasmInitialized, rpcClient, isConnected, ledger,
          mining, miningResult, signerCalls, fallback, sendCalls, progress, outcome>>

pureVars == <<codec, builder, conversion>>

bridgeVars == <<rpc, wasmInit, ui, pc, call, wasmInitialized, rpcClient, isConnected, ledger,
                mining, miningResult, signerCalls, fallback, sendCalls, progress, outcome>>

NoValue == [none |-> TRUE]

(***************************************************************************)
(* Characters and strings                                                  *)
(***************************************************************************)
LowerHex == <<"0","1","2","3","4","5","6","7","8","9","a","b","c","d","e","f">>
UpperHex == <<"0","1","2","3","4","5","6","7","8","9","A","B","C","D","E","F">>

IsHexChar(c) == \E k \in 1..16 : LowerHex[k] = c \/ UpperHex[k] = c

HexVal(c) == (CHOOSE k \in 1..16 : LowerHex[k] = c \/ UpperHex[k] = c) - 1

\* String.prototype.toLowerCase on the alphabet of the model
\* (hex digits, "x", "g", "X", "G").
toLowerCase(s) ==
    [i \in 1..Len(s) |->
        IF \E k \in 11..16 : UpperHex[k] = s[i]
        THEN LowerHex[CHOOSE k \in 11..16 : UpperHex[k] = s[i]]
        ELSE IF s[i] = "X" THEN "x"
        ELSE IF s[i] = "G" THEN "g"
        ELSE s[i]]

\* String.prototype.startsWith
startsWith(s, p) == Len(s) >= Len(p) /\ SubSeq(s, 1, Len(p)) = p

\* String.prototype.slice(0, n)
slice0(s, n) == SubSeq(s, 1, IF n < Len(s) THEN n ELSE Len(s))

(***************************************************************************)
(* JS numbers as <<hi, lo>>, and the 32-bit operators the code applies     *)
(***************************************************************************)
Limb == 256 * 256

Num(hi, lo) == <<hi, lo>>

\* ToInt32: reduce modulo 2^32 into -2^31 .. 2^31 - 1
ToInt32(n) == <<((n[1] + 32768) % Limb) - 32768, n[2]>>

\* ToUint32: reduce modulo 2^32 into 0 .. 2^32 - 1  (x >>> 0)
ToUint32(n) == <<n[1] % Limb, n[2]>>

\* n + 1 on numbers (exact below 2^53)
NumPlus1(n) == IF n[2] = Limb - 1 THEN <<n[1] + 1, 0>> ELSE <<n[1], n[2] + 1>>

\* floor(n / 256)
NumShr8(n) == <<n[1] \div 256, (n[1] % 256) * 256 + n[2] \div 256>>

\* x >> k for k in {0, 8, 16, 24}: sign-propagating shift of ToInt32(x)
RECURSIVE SarLoop(_, _)
SarLoop(n, k) == IF k = 0 THEN n ELSE SarLoop(NumShr8(n), k - 8)
SignedShiftRight(x, k) == SarLoop(ToInt32(x), k)

\* x & 0xff, the result as a byte
And0xff(x) == ToInt32(x)[2] % 256

\* b << k for a byte b and k in {0, 8, 16, 24}: ToInt32(b * 2^k)
ShiftLeft(b, k) ==
    ToInt32(CASE k = 0  -> <<0, b>>
              [] k = 8  -> <<0, b * 256>>
              [] k = 16 -> <<b, 0>>
              [] k = 24 -> <<b * 256, 0>>)

\* bitwise or of two naturals
RECURSIVE BitOr(_, _)
BitOr(a, b) ==
    IF a = 0 THEN b
    ELSE IF b = 0 THEN a
    ELSE (IF a % 2 = 1 \/ b % 2 = 1 THEN 1 ELSE 0) + 2 * BitOr(a \div 2, b \div 2)

\* x | y on int32 operands, the result an int32
Or32(x, y) ==
    ToInt32(<<BitOr(ToInt32(x)[1] % Limb, ToInt32(y)[1] % Limb),
              BitOr(x[2], y[2])>>)

(***************************************************************************)
(* bigint below 2^64 as four limbs                                         *)
(***************************************************************************)
BigZero == <<0, 0, 0, 0>>

\* the bigint of a plain integer 0 <= n < 2^31
BigOfInt(n) == <<n % Limb, (n \div Limb) % Limb, 0, 0>>

\* value & 0xffn, as a byte
BigAnd0xff(v) == v[1] % 256

\* value >> 8n
BigShr8(v) ==
    [k \in 1..4 |-> (v[k] \div 256) + (IF k < 4 THEN (v[k + 1] % 256) * 256 ELSE 0)]

\* BigInt(b) << BigInt(bits) for a byte b and bits in {0, 8, ..., 56}
BigShlByte(b, bits) ==
    [k \in 1..4 |-> IF k = (bits \div 16) + 1
                    THEN (IF bits % 16 = 0 THEN b ELSE b * 256)
                    ELSE 0]

\* a | b on bigints
BigOr(a, b) == [k \in 1..4 |-> BitOr(a[k], b[k])]

(***************************************************************************)
(* config.ts                                                               *)
(***************************************************************************)
PAYLOAD_PREFIX == 146                       \* 0x92
TX_ID_PREFIX == <<"9", "7", "b", "4">>
ENTRY_ADDRESS == "kaspatest:qqmstl2znv9tsfgcmj9shme82my867tapz7pdu4ztwdn6sm9452jj5mm0sxzw"
SOMPI_PER_KAS == 100000000
MIN_BRIDGE_AMOUNT_KAS == 1

\* a plausible slip: the pattern without its end anchor
isValidL2AddressUnanchored(address) ==
    /\ Len(address) >= 42
    /\ address[1] = "0"
    /\ address[2] = "x"
    /\ \A i \in 3..42 : IsHexChar(address[i])

\* /^0x[a-fA-F0-9]{40}$/.test(address)
isValidL2Address(address) ==
    /\ Len(address) = 42
    /\ address[1] = "0"
    /\ address[2] = "x"
    /\ \A i \in 3..42 : IsHexChar(address[i])

(***************************************************************************)
(* bridge.ts: the Entry payload codec                                      *)
(***************************************************************************)
Ok(v) == [ok |-> TRUE, value |-> v]
Err(e) == [ok |-> FALSE, error |-> e]

\* parseInt(s, 16) of a two-character string stored into a Uint8Array:
\* a leading "0x"/"0X" is skipped, the longest run of hex digits is read,
\* and NaN (no digit read) is stored as 0.
parseInt16Byte(s) ==
    IF Len(s) = 2 /\ s[1] = "0" /\ s[2] \in {"x", "X"} THEN 0
    ELSE IF Len(s) = 0 \/ ~IsHexChar(s[1]) THEN 0
    ELSE IF Len(s) = 1 \/ ~IsHexChar(s[2]) THEN HexVal(s[1])
    ELSE HexVal(s[1]) * 16 + HexVal(s[2])

\* hex.substr(i * 2, 2)
substr2(hex, i) ==
    SubSeq(hex, i * 2 + 1, IF i * 2 + 2 <= Len(hex) THEN i * 2 + 2 ELSE Len(hex))

hexToBytes(hex) ==
    [i \in 1..(Len(hex) \div 2) |-> parseInt16Byte(substr2(hex, i - 1))]

\* b.toString(16).padStart(2, '0')
byteToHex(b) == <<LowerHex[(b \div 16) + 1], LowerHex[(b % 16) + 1]>>

RECURSIVE joinHex(_)
joinHex(bytes) ==
    IF bytes = <<>> THEN <<>> ELSE byteToHex(Head(bytes)) \o joinHex(Tail(bytes))

payloadToHex(payload) == joinHex(payload)

\* the loop of bigintToBytes8LE: bytes[i] = value & 0xff; value >>= 8
RECURSIVE bigintToBytes8LELoop(_, _, _)
bigintToBytes8LELoop(value, i, bytes) ==
    IF i = 8 THEN bytes
    ELSE bigintToBytes8LELoop(BigShr8(value), i + 1,
                              [bytes EXCEPT ![i + 1] = BigAnd0xff(value)])

\* a plausible slip: the amount written most significant byte first
bigintToBytes8BE(value) ==
    LET le == bigintToBytes8LELoop(value, 0, [k \in 1..8 |-> 0])
    IN  [k \in 1..8 |-> le[9 - k]]

bigintToBytes8LE(value) == bigintToBytes8LELoop(value, 0, [k \in 1..8 |-> 0])

uint32ToBytes4BE(value) ==
    << And0xff(SignedShiftRight(value, 24)),
       And0xff(SignedShiftRight(value, 16)),
       And0xff(SignedShiftRight(value, 8)),
       And0xff(value) >>

\* Uint8Array.prototype.set(src, offset)
setAt(arr, src, offset) ==
    [i \in 1..Len(arr) |->
        IF i > offset /\ i <= offset + Len(src) THEN src[i - offset] ELSE arr[i]]

\* a plausible slip: the nonce written one byte early, over the amount
constructEntryPayloadNonceEarly(l2Address, amountSompi, nonce) ==
    IF ~isValidL2Address(l2Address) THEN Err("InvalidAddress")
    ELSE LET addressBytes == hexToBytes(SubSeq(l2Address, 3, Len(l2Address)))
             p0 == [i \in 1..33 |-> IF i = 1 THEN PAYLOAD_PREFIX ELSE 0]
             p1 == setAt(p0, addressBytes, 1)
             p2 == setAt(p1, bigintToBytes8LE(amountSompi), 21)
             p3 == setAt(p2, uint32ToBytes4BE(nonce), 28)
         IN  IF Len(addressBytes) # 20 THEN Err("InvalidAddress") ELSE Ok(p3)

\* a plausible slip: the address grammar left to the caller, only the
\* byte count checked
constructEntryPayloadUnchecked(l2Address, amountSompi, nonce) ==
    LET addressBytes == hexToBytes(SubSeq(l2Address, 3, Len(l2Address)))
        p0 == [i \in 1..33 |-> IF i = 1 THEN PAYLOAD_PREFIX ELSE 0]
        p1 == setAt(p0, addressBytes, 1)
        p2 == setAt(p1, bigintToBytes8LE(amountSompi), 21)
        p3 == setAt(p2, uint32ToBytes4BE(nonce), 29)
    IN  IF Len(addressBytes) # 20 THEN Err("InvalidAddress") ELSE Ok(p3)

constructEntryPayload(l2Address, amountSompi, nonce) ==
    IF ~isValidL2Address(l2Address) THEN Err("InvalidAddress")
    ELSE LET addressBytes == hexToBytes(SubSeq(l2Address, 3, Len(l2Address)))
             p0 == [i \in 1..33 |-> IF i = 1 THEN PAYLOAD_PREFIX ELSE 0]
             p1 == setAt(p0, addressBytes, 1)
             p2 == setAt(p1, bigintToBytes8LE(amountSompi), 21)
             p3 == setAt(p2, uint32ToBytes4BE(nonce), 29)
         IN  IF Len(addressBytes) # 20 THEN Err("InvalidAddress") ELSE Ok(p3)

\* the loop of decodeEntryPayload: amountSompi |= BigInt(bytes[21 + i]) << BigInt(i * 8)
RECURSIVE decodeAmountLoop(_, _, _)
decodeAmountLoop(bytes, i, amountSompi) ==
    IF i = 8 THEN amountSompi
    ELSE decodeAmountLoop(bytes, i + 1,
                          BigOr(amountSompi, BigShlByte(bytes[22 + i], i * 8)))

\* (bytes[29] << 24) | (bytes[30] << 16) | (bytes[31] << 8) | bytes[32]
decodeNonce(bytes) ==
    Or32(Or32(Or32(ShiftLeft(bytes[30], 24), ShiftLeft(bytes[31], 16)),
              ShiftLeft(bytes[32], 8)),
         Num(0, bytes[33]))

\* the amountKas field (a floating-point quotient for display) is left out
decodeEntryPayload(payloadHex) ==
    LET bytes == hexToBytes(payloadHex)
    IN  IF Len(bytes) # 33 THEN Err("MalformedPayload")
        ELSE Ok([ l2Address   |-> <<"0", "x">> \o joinHex(SubSeq(bytes, 2, 21)),
                  amountSompi |-> decodeAmountLoop(bytes, 0, BigZero),
                  nonce       |-> decodeNonce(bytes),
                  prefix      |-> byteToHex(bytes[1]) ])

(***************************************************************************)
(* bridge.ts / config.ts: parameters                                       *)
(* amountKas is a JS number: NaN, +-Infinity, or the finite value named by *)
(* the quotient num / den, which is the double nearest to it (the value    *)
(* parseFloat gives the decimal text, and num / den itself when den is a   *)
(* power of two and num is below 2^53).                                    *)
(***************************************************************************)
Finite(num, den) == [num |-> num, den |-> den, kind |-> "finite"]
NaN == [num |-> 0, den |-> 1, kind |-> "NaN"]
Infinity == [num |-> 0, den |-> 1, kind |-> "Infinity"]
NegativeInfinity == [num |-> 0, den |-> 1, kind |-> "-Infinity"]

\* amountKas < c
numberLess(a, c) ==
    \/ a.kind = "-Infinity"
    \/ a.kind = "finite" /\ a.num < c * a.den

\* amountKas <= 0
numberLeqZero(a) ==
    \/ a.kind = "-Infinity"
    \/ a.kind = "finite" /\ a.num <= 0

\* Number.isFinite(amountKas)
isFinite(a) == a.kind = "finite"

(***************************************************************************)
(* Number arithmetic (IEEE 754 binary64) on positive finite values. A      *)
(* value is digits * 16^exp, digits being base-16 digits, most significant *)
(* first and without a leading zero, that carry at most SIGNIFICAND_BITS   *)
(* significant binary digits.                                              *)
(***************************************************************************)
SIGNIFICAND_BITS == 53

RECURSIVE digitsOf(_)
digitsOf(n) == IF n = 0 THEN <<>> ELSE Append(digitsOf(n \div 16), n % 16)

RECURSIVE natOf(_)
natOf(digits) ==
    IF digits = <<>> THEN 0
    ELSE 16 * natOf(SubSeq(digits, 1, Len(digits) - 1)) + digits[Len(digits)]

pow2(k) == CASE k = 0 -> 1 [] k = 1 -> 2 [] k = 2 -> 4 [] k = 3 -> 8 [] OTHER -> 16

\* the number of binary digits of a digit sequence
bitLength(digits) ==
    IF digits = <<>> THEN 0
    ELSE 4 * (Len(digits) - 1)
         + (CASE digits[1] >= 8 -> 4 [] digits[1] >= 4 -> 3 [] digits[1] >= 2 -> 2
              [] OTHER -> 1)

\* binary digit p of a digit sequence, 0 being the least significant
bitAt(digits, p) == (digits[Len(digits) - (p \div 4)] \div pow2(p % 4)) % 2

\* digits + add * 16^j, the carry running towards the front
RECURSIVE addAt(_, _, _)
addAt(digits, j, add) ==
    IF add = 0 THEN digits
    ELSE IF j >= Len(digits) THEN <<add>> \o digits
    ELSE LET k == Len(digits) - j
             t == digits[k] + add
         IN  addAt([digits EXCEPT ![k] = t % 16], j + 1, t \div 16)

\* round to nearest, ties to even, at SIGNIFICAND_BITS binary digits: the
\* binary digits below the kept ones become zero, the exponent stays.
\* sticky tells that the exact value lies above digits * 16^exp
roundToNumber(digits, exp, sticky) ==
    LET drop == bitLength(digits) - SIGNIFICAND_BITS
    IN  IF drop <= 0 THEN [digits |-> digits, exp |-> exp]
        ELSE LET tail == sticky \/ \E p \in 0..(drop - 2) : bitAt(digits, p) = 1
                 up   == bitAt(digits, drop - 1) = 1 /\ (tail \/ bitAt(digits, drop) = 1)
                 kept == [k \in 1..Len(digits) |->
                            LET low == 4 * (Len(digits) - k)
                            IN  IF low >= drop THEN digits[k]
                                ELSE IF low + 4 <= drop THEN 0
                                ELSE digits[k] - (digits[k] % pow2(drop - low))]
             IN  [digits |-> IF up THEN addAt(kept, drop \div 4, pow2(drop % 4)) ELSE kept,
                  exp    |-> exp]

\* the base-16 expansion of (value of digits) + rem / den, continued until
\* it is exact or has more than SIGNIFICAND_BITS binary digits; f counts
\* the digits after the point
RECURSIVE expand(_, _, _, _)
expand(digits, rem, den, f) ==
    IF rem = 0 \/ Len(digits) >= 15
    THEN [digits |-> digits, sticky |-> rem # 0, f |-> f]
    ELSE LET d == (16 * rem) \div den
         IN  expand(IF digits = <<>> /\ d = 0 THEN digits ELSE Append(digits, d),
                    (16 * rem) % den, den, f + 1)

\* the double nearest to num / den, for num >= 0 and 0 < den <= 10^8
numberOf(num, den) ==
    LET x == expand(digitsOf(num \div den), num % den, den, 0)
    IN  roundToNumber(x.digits, 0 - x.f, x.sticky)

\* digits[1..k] * c + carry
RECURSIVE timesFrom(_, _, _, _)
timesFrom(digits, k, c, carry) ==
    IF k = 0 THEN digitsOf(carry)
    ELSE LET t == digits[k] * c + carry
         IN  Append(timesFrom(digits, k - 1, c, t \div 16), t % 16)

\* the Number product x * c, for a natural c up to 10^8: the exact product
\* rounded to a double
numberTimes(x, c) == roundToNumber(timesFrom(x.digits, Len(x.digits), c, 0), x.exp, FALSE)

\* Math.floor of a double that is not negative (below 2^31 here)
MathFloor(x) ==
    IF 0 - x.exp >= Len(x.digits) THEN 0
    ELSE natOf(SubSeq(x.digits, 1, Len(x.digits) + x.exp))

\* BigInt(Math.floor(kas * Number(SOMPI_PER_KAS))) for the amounts that
\* pass validateBridgeParams (finite, at least MIN_BRIDGE_AMOUNT_KAS)
kasToSompi(kas) == MathFloor(numberTimes(numberOf(kas.num, kas.den), SOMPI_PER_KAS))

\* a plausible slip: the address left to the encoder to check
validateBridgeParamsAmountOnly(params) ==
    IF numberLess(params.amountKas, MIN_BRIDGE_AMOUNT_KAS) THEN "MinimumAmount"
    ELSE IF ~isFinite(params.amountKas) \/ numberLeqZero(params.amountKas)
         THEN "InvalidAmount"
    ELSE "ok"

\* the error thrown, or "ok"
validateBridgeParams(params) ==
    IF numberLess(params.amountKas, MIN_BRIDGE_AMOUNT_KAS) THEN "MinimumAmount"
    ELSE IF ~isFinite(params.amountKas) \/ numberLeqZero(params.amountKas)
         THEN "InvalidAmount"
    ELSE IF ~isValidL2Address(params.l2Address) THEN "InvalidAddress"
    ELSE "ok"

(***************************************************************************)
(* tx-miner.ts: the transaction builder                                    *)
(***************************************************************************)
FEE_BUFFER == 10000
ESTIMATED_FEE == 10000
SUBNETWORK_ID == "0000000000000000000000000000000000000000"

\* kaspa.payToAddressScript (external): one locking script per address
payToAddressScript(address) == [version |-> 0, script |-> <<"script", address>>]

\* the selection loop: accumulate in the given order, stop once
\* totalAvailable >= amountSompi + feeBuffer
RECURSIVE selectLoop(_, _, _, _)
selectLoop(utxos, k, amountSompi, acc) ==
    IF k > Len(utxos) THEN acc
    ELSE LET next == [totalAvailable |-> acc.totalAvailable + utxos[k].amount,
                      selectedUtxos  |-> Append(acc.selectedUtxos, utxos[k])]
         IN  IF next.totalAvailable >= amountSompi + FEE_BUFFER THEN next
             ELSE selectLoop(utxos, k + 1, amountSompi, next)

\* a plausible slip: the UTXOs walked from the last one supplied to the first
selectUtxosReversed(utxos, amountSompi) ==
    selectLoop([k \in 1..Len(utxos) |-> utxos[Len(utxos) + 1 - k]], 1, amountSompi,
               [totalAvailable |-> 0, selectedUtxos |-> <<>>])

selectUtxos(utxos, amountSompi) ==
    selectLoop(utxos, 1, amountSompi, [totalAvailable |-> 0, selectedUtxos |-> <<>>])

buildInputs(selectedUtxos) ==
    [k \in 1..Len(selectedUtxos) |->
        [ previousOutpoint |-> selectedUtxos[k].outpoint,
          signatureScript  |-> "",
          sequence         |-> 0,
          sigOpCount       |-> 1,
          utxo             |-> selectedUtxos[k] ]]

\* a plausible slip: the change output pushed whenever change >= 0
buildOutputsZeroChange(entryAddress, senderAddress, amountSompi, change) ==
    << [value |-> amountSompi, scriptPublicKey |-> payToAddressScript(entryAddress)] >>
    \o (IF change >= 0
        THEN << [value |-> change, scriptPublicKey |-> payToAddressScript(senderAddress)] >>
        ELSE <<>>)

\* a plausible slip: the change output pushed in front of the Entry output
buildOutputsChangeFirst(entryAddress, senderAddress, amountSompi, change) ==
    (IF change > 0
     THEN << [value |-> change, scriptPublicKey |-> payToAddressScript(senderAddress)] >>
     ELSE <<>>)
    \o << [value |-> amountSompi, scriptPublicKey |-> payToAddressScript(entryAddress)] >>

buildOutputs(entryAddress, senderAddress, amountSompi, change) ==
    << [value |-> amountSompi, scriptPublicKey |-> payToAddressScript(entryAddress)] >>
    \o (IF change > 0
        THEN << [value |-> change, scriptPublicKey |-> payToAddressScript(senderAddress)] >>
        ELSE <<>>)

\* a plausible slip: the two amounts of the message exchanged
insufficientFundsSwapped(totalAvailable, amountSompi) ==
    [ok |-> FALSE, error |-> "InsufficientFunds",
     have |-> amountSompi, need |-> totalAvailable]

\* throw new Error(`Insufficient funds. Have: ${totalAvailable}, Need: ${amountSompi}`)
insufficientFunds(totalAvailable, amountSompi) ==
    [ok |-> FALSE, error |-> "InsufficientFunds",
     have |-> totalAvailable, need |-> amountSompi]

buildEntryTransaction(utxos, senderAddress, entryAddress, amountSompi, l2Address, nonce) ==
    LET payload == constructEntryPayload(l2Address, BigOfInt(amountSompi), nonce)
        sel     == selectUtxos(utxos, amountSompi)
        change  == sel.totalAvailable - amountSompi - ESTIMATED_FEE
    IN  IF ~payload.ok THEN payload
        ELSE IF sel.totalAvailable < amountSompi
             THEN insufficientFunds(sel.totalAvailable, amountSompi)
        ELSE Ok([ payload      |-> payloadToHex(payload.value),
                  version      |-> 0,
                  inputs       |-> buildInputs(sel.selectedUtxos),
                  outputs      |-> buildOutputs(entryAddress, senderAddress, amountSompi, change),
                  lockTime     |-> 0,
                  subnetworkId |-> SUBNETWORK_ID,
                  gas          |-> 0 ])

(***************************************************************************)
(* The external canonical-identifier function (Transaction.id of the WASM  *)
(* SDK), stubbed as the spec's test schedule: under ledger                 *)
(* [modulus, residue, upper] the identifier of a transaction carries the   *)
(* required prefix exactly when the nonce in its payload is congruent to   *)
(* residue modulo modulus (never when modulus = 0); the rest of the        *)
(* identifier is the payload's nonce field, so distinct nonces give        *)
(* distinct identifiers. upper selects upper-case hex digits.              *)
(***************************************************************************)
payloadNonceResidue(tx, m) ==
    LET b == hexToBytes(tx.payload)
    IN  ((b[30] * 256 + b[31]) * (Limb % m) + (b[32] * 256 + b[33])) % m

ledgerId(l, tx) ==
    LET hit  == l.modulus > 0 /\ payloadNonceResidue(tx, l.modulus) = l.residue
        head == IF ~hit THEN <<"9", "7", "b", "5">>
                ELSE IF l.upper THEN <<"9", "7", "B", "4">>
                ELSE <<"9", "7", "b", "4">>
    IN  head \o SubSeq(tx.payload, 59, 66)

\* tx.id
getTransactionId(tx) == ledgerId(ledger, tx)

(***************************************************************************)
(* tx-miner.ts: the miner                                                  *)
(***************************************************************************)
\* CONFIG.MINING.MAX_NONCE_ITERATIONS (10,000,000) and PROGRESS_INTERVAL
\* (100,000), scaled down so that the search can be exhausted
MAX_NONCE_ITERATIONS == 4
PROGRESS_INTERVAL == 2

\* a plausible slip: only the first two characters compared
matchesPrefixShort(txId, prefix) ==
    startsWith(toLowerCase(txId), SubSeq(toLowerCase(prefix), 1, 2))

matchesPrefix(txId, prefix) == startsWith(toLowerCase(txId), toLowerCase(prefix))

\* a plausible slip: nonce = nonce++ >>> 0, which leaves the nonce as it was
nextNoncePostIncrement(nonce) == ToUint32(nonce)

\* a plausible slip: the increment without the unsigned wrap
nextNonceNoWrap(nonce) == NumPlus1(nonce)

\* nonce = (nonce + 1) >>> 0
nextNonce(nonce) == ToUint32(NumPlus1(nonce))

\* i % CONFIG.MINING.PROGRESS_INTERVAL === 0
reportsProgress(i) == i % PROGRESS_INTERVAL = 0

\* a plausible slip: an off-by-one loop bound
loopContinuesInclusive(i) == i <= MAX_NONCE_ITERATIONS

\* the loop condition i < maxIterations
loopContinues(i) == i < MAX_NONCE_ITERATIONS

\* a plausible slip: the zero-based index reported
iterationsReportedZeroBased(i) == i

\* iterations: i + 1
iterationsReported(i) == i + 1

\* tx.serializeToSafeJSON() (external): an injective encoding of the transaction
serializeForKastle(tx) == [json |-> tx]

(***************************************************************************)
(* Inputs of the model                                                     *)
(***************************************************************************)
MaxUtxos == 2

AddrLower == <<"0","x","0","0","0","0","0","0","0","0","0","0","0","0","0","0","0","0","0","0","0","0","0","0","0","0","0","0","0","0","0","0","0","0","0","0","0","0","0","0","f","f">>
AddrMixed == <<"0","x","5","f","1","0","2","e","8","a","F","f","0","8","F","6","4","7","6","8","1","d","e","1","3","0","0","9","A","B","3","1","3","f","D","C","5","5","f","B","A","8">>
AddrNoPrefix == SubSeq(AddrLower, 3, 42)
AddrShort == SubSeq(AddrLower, 1, 41)
AddrLong == AddrLower \o <<"0">>
AddrNonHex == [AddrLower EXCEPT ![10] = "g"]

SenderAddress == "kaspatest:sender"

BridgeAmounts == { Finite(1, 1), Finite(3, 2), Finite(1, 2), Finite(0, 1), Finite(-1, 1),
                   NaN, Infinity, NegativeInfinity }
BridgeAddresses == { AddrLower, AddrNoPrefix, AddrShort, AddrLong, AddrNonHex }

\* amounts of the UTXOs the ledger may report for the sender
UtxoAmounts == { 50000000, 100000000, 100010000, 100010001 }

RECURSIVE SeqsUpTo(_, _)
SeqsUpTo(S, n) ==
    IF n = 0 THEN { <<>> }
    ELSE LET shorter == SeqsUpTo(S, n - 1)
         IN  shorter \cup { Append(q, x) : q \in { r \in shorter : Len(r) = n - 1 }, x \in S }

\* UtxoEntryReference values: distinct outpoints, the given amounts
makeUtxos(amounts) ==
    [k \in 1..Len(amounts) |->
        [ amount   |-> amounts[k],
          outpoint |-> [transactionId |-> "prev", index |-> k - 1] ]]

UtxoLists == { makeUtxos(a) : a \in SeqsUpTo(UtxoAmounts, MaxUtxos) }

\* values Math.floor(Math.random() * 0xFFFFFFFF) can take: 0 .. 0xFFFFFFFE
StartNonces == { Num(0, 0), Num(0, 1), Num(32767, 65535), Num(65535, 65534) }

Ledgers ==
    { [modulus |-> 0, residue |-> 0, upper |-> FALSE],
      [modulus |-> 1, residue |-> 0, upper |-> TRUE],
      [modulus |-> 3, residue |-> 1, upper |-> FALSE],
      [modulus |-> 7, residue |-> 0, upper |-> FALSE],
      [modulus |-> 7, residue |-> 0, upper |-> TRUE] }

MismatchId == <<"1", "2", "3", "4", "0", "0", "0", "0", "0", "0", "0", "0">>

MatchingId == <<"9", "7", "B", "4", "0", "0", "0", "0", "0", "0", "0", "0">>

\* the onProgress argument: absent, a callback that records every message,
\* or one that records and throws when handed a mining progress message
Callbacks == { "undefined", "log", "throwing" }

(***************************************************************************)
(* bridge.ts: executeBridgeWithMining, with the mineTxId call inlined.     *)
(* One action per run-to-completion segment between awaits; the            *)
(* synchronous mining loop is taken one iteration at a time.               *)
(***************************************************************************)
Pending == [kind |-> "pending"]

\* onProgress?.(message)
say(hasCallback, log, msgs) == IF hasCallback THEN log \o msgs ELSE log

\* the attempt's promise rejects with the error e
reject(e) ==
    /\ pc' = "failed"
    /\ outcome' = [error |-> e, kind |-> "rejected"]

\* kaspa-wasm.ts initKaspaWasm up to its first await: an initialized module
\* is returned at once, otherwise the module is loaded. wasmInit is
\* "none", "loading", "ready" or "failed": where the latest call stands
InitKaspaWasm ==
    /\ wasmInit # "loading"
    /\ wasmInit' = IF wasmInitialized THEN wasmInit ELSE "loading"
    /\ UNCHANGED <<pureVars, rpc, ui, fallback, sendCalls,
                   pc, call, wasmInitialized, rpcClient, isConnected, ledger, mining,
                   miningResult, signerCalls, progress, outcome>>

\* the import and the WASM binary initialization both resolve:
\* wasmInitialized = true
InitKaspaWasmResolve ==
    /\ wasmInit = "loading"
    /\ wasmInit' = "ready"
    /\ wasmInitialized' = TRUE
    /\ UNCHANGED <<pureVars, rpc, ui, fallback, sendCalls,
                   pc, call, rpcClient, isConnected, ledger, mining,
                   miningResult, signerCalls, progress, outcome>>

\* one of them rejects: the catch block logs and rethrows
InitKaspaWasmReject ==
    /\ wasmInit = "loading"
    /\ wasmInit' = "failed"
    /\ UNCHANGED <<pureVars, rpc, ui, fallback, sendCalls,
                   pc, call, wasmInitialized, rpcClient, isConnected, ledger, mining,
                   miningResult, signerCalls, progress, outcome>>

\* the call record of an attempt
callOf(entry, params, senderAddress, onProgress, amountSompi) ==
    [amountSompi |-> amountSompi, params |-> params, senderAddress |-> senderAddress,
     hasCallback |-> onProgress # "undefined", entry |-> entry, onProgress |-> onProgress]

\* executeBridgeWithMining up to its first pending await (ui is left to
\* the caller, handleBridge or another): validation, the
\* WASM check, the conversion, and initRpcConnection up to connect();
\* when the client is already connected, on to getUtxosByAddresses
ExecuteBridgeWithMining(params, senderAddress, onProgress) ==
    LET v == validateBridgeParams(params)
        hasCallback == onProgress # "undefined"
        intro == <<"Preparing", "Amount", "L2 Address", "Entry Address",
                   "Required prefix", "Connecting">>
    IN
    /\ pc = "idle"
    /\ IF v # "ok"
       THEN /\ reject(Err(v))
            /\ call' = callOf("executeBridgeWithMining", params, senderAddress, onProgress, 0)
            /\ UNCHANGED <<rpcClient, progress>>
       ELSE IF ~wasmInitialized
       THEN /\ reject(Err("WasmNotInitialized"))
            /\ call' = callOf("executeBridgeWithMining", params, senderAddress, onProgress, 0)
            /\ UNCHANGED <<rpcClient, progress>>
       ELSE /\ call' = callOf("executeBridgeWithMining", params, senderAddress, onProgress,
                              kasToSompi(params.amountKas))
            /\ UNCHANGED outcome
            /\ IF isConnected /\ rpcClient # "null"
               THEN /\ progress' = say(hasCallback, progress,
                                       intro \o <<"Connected", "Mining TX ID">>)
                    /\ pc' = "fetching"
                    /\ UNCHANGED rpcClient
               ELSE /\ progress' = say(hasCallback, progress, intro)
                    /\ rpcClient' = "client"
                    /\ pc' = "connecting"
    /\ UNCHANGED <<pureVars, rpc, wasmInit, fallback, sendCalls,
                   wasmInitialized, isConnected, ledger, mining,
                   miningResult, signerCalls>>

\* rpcClient.connect() resolves; mineTxId starts and awaits the UTXOs
ConnectResolve ==
    /\ pc = "connecting"
    /\ isConnected' = TRUE
    /\ progress' = IF call.entry = "executeBridgeWithMining"
                   THEN say(call.hasCallback, progress, <<"Connected", "Mining TX ID">>)
                   ELSE progress
    /\ pc' = "fetching"
    /\ UNCHANGED <<pureVars, rpc, wasmInit, ui, fallback, sendCalls,
                   call, wasmInitialized, rpcClient, ledger, mining,
                   miningResult, signerCalls, outcome>>

\* creating the client or connect() throws
ConnectReject ==
    /\ pc = "connecting"
    /\ reject(Err("RpcUnavailable"))
    /\ UNCHANGED <<pureVars, rpc, wasmInit, ui, fallback, sendCalls,
                   call, wasmInitialized, rpcClient, isConnected, ledger,
                   mining, miningResult, signerCalls, progress>>

\* getUtxosByAddresses resolves with entries; the start nonce is drawn
FetchResolve(entries, startNonce) ==
    /\ pc = "fetching"
    /\ IF Len(entries) = 0
       THEN /\ reject(Err("NoUtxos"))
            /\ UNCHANGED mining
       ELSE /\ mining' = [i |-> 0, nonce |-> startNonce,
                          utxos |-> entries, start |-> startNonce, callbacks |-> <<>>,
                          tried |-> <<>>]
            /\ pc' = "mining"
            /\ UNCHANGED outcome
    /\ UNCHANGED <<pureVars, rpc, wasmInit, ui, fallback, sendCalls,
                   call, wasmInitialized, rpcClient, isConnected, ledger,
                   miningResult, signerCalls, progress>>

FetchReject ==
    /\ pc = "fetching"
    /\ reject(Err("RpcUnavailable"))
    /\ UNCHANGED <<pureVars, rpc, wasmInit, ui, fallback, sendCalls,
                   call, wasmInitialized, rpcClient, isConnected, ledger,
                   mining, miningResult, signerCalls, progress>>

\* mineTxId called on its own, up to its first pending await: the WASM
\* check and initRpcConnection up to connect(); when the client is already
\* connected, on to getUtxosByAddresses
MineTxId(senderAddress, l2Address, amountSompi, onProgress) ==
    /\ pc = "idle"
    /\ call' = callOf("mineTxId", [l2Address |-> l2Address], senderAddress, onProgress,
                      amountSompi)
    /\ IF ~wasmInitialized
       THEN /\ reject(Err("WasmNotInitialized"))
            /\ UNCHANGED rpcClient
       ELSE /\ UNCHANGED outcome
            /\ IF isConnected /\ rpcClient # "null"
               THEN /\ pc' = "fetching"
                    /\ UNCHANGED rpcClient
               ELSE /\ rpcClient' = "client"
                    /\ pc' = "connecting"
    /\ UNCHANGED <<pureVars, rpc, wasmInit, ui, fallback, sendCalls,
                   wasmInitialized, isConnected, ledger, mining,
                   miningResult, signerCalls, progress>>

\* whether mineTxId was given a callback: executeBridgeWithMining always
\* passes its wrapper (lines 335-337), a direct caller its own or none
minerCallback == call.entry = "executeBridgeWithMining" \/ call.hasCallback

\* one pass of the mining loop body; the wrapper of executeBridgeWithMining
\* forwards to the caller's onProgress when there is one, so a throw of
\* the callback leaves the loop as the rejection of the call.
\* mining.tried records the nonce argument of each buildEntryTransaction call
MineIteration ==
    /\ pc = "mining"
    /\ loopContinues(mining.i)
    /\ \E built \in { buildEntryTransaction(mining.utxos, call.senderAddress, ENTRY_ADDRESS,
                                            call.amountSompi, call.params.l2Address,
                                            mining.nonce) } :
          IF ~built.ok
          THEN /\ reject(built)
               /\ mining' = [mining EXCEPT !.tried = Append(@, mining.nonce)]
               /\ UNCHANGED <<miningResult, progress>>
          ELSE \E txId \in { getTransactionId(built.value) } :
               LET report == minerCallback /\ reportsProgress(mining.i)
                   told == IF report THEN Append(mining.callbacks, <<mining.i, txId>>)
                           ELSE mining.callbacks
               IN  /\ progress' = IF report /\ call.entry = "executeBridgeWithMining"
                                  THEN say(call.hasCallback, progress,
                                           << <<"Mining", mining.i, slice0(txId, 4)>> >>)
                                  ELSE progress
                   /\ IF report /\ call.onProgress = "throwing"
                      THEN /\ reject(Err("CallbackError"))
                           /\ mining' = [mining EXCEPT !.callbacks = told,
                                                       !.tried = Append(@, mining.nonce)]
                           /\ UNCHANGED miningResult
                      ELSE IF matchesPrefix(txId, TX_ID_PREFIX)
                      THEN /\ miningResult' = [nonce |-> mining.nonce, tx |-> built.value,
                                               txId |-> txId,
                                               iterations |-> iterationsReported(mining.i)]
                           /\ mining' = [mining EXCEPT !.callbacks = told,
                                                       !.tried = Append(@, mining.nonce)]
                           /\ pc' = "mined"
                           /\ UNCHANGED outcome
                      ELSE /\ mining' = [mining EXCEPT !.callbacks = told,
                                                       !.tried = Append(@, mining.nonce),
                                                       !.nonce = nextNonce(mining.nonce),
                                                       !.i = mining.i + 1]
                           /\ UNCHANGED <<miningResult, pc, outcome>>
    /\ UNCHANGED <<pureVars, rpc, wasmInit, ui, fallback, sendCalls,
                   call, wasmInitialized, rpcClient, isConnected, ledger,
                   signerCalls>>

\* the loop ends without a match: throw after maxIterations
MineExhausted ==
    /\ pc = "mining"
    /\ ~loopContinues(mining.i)
    /\ reject([ok |-> FALSE, error |-> "MiningTimeout",
               iterations |-> MAX_NONCE_ITERATIONS])
    /\ UNCHANGED <<pureVars, rpc, wasmInit, ui, fallback, sendCalls,
                   call, wasmInitialized, rpcClient, isConnected, ledger,
                   mining, miningResult, signerCalls, progress>>

\* mineTxId called on its own returns its result to the caller
MineReturn ==
    /\ pc = "mined"
    /\ call.entry = "mineTxId"
    /\ outcome' = [value |-> miningResult, kind |-> "resolved"]
    /\ pc' = "done"
    /\ UNCHANGED <<pureVars, rpc, wasmInit, ui, fallback, sendCalls,
                   call, wasmInitialized, rpcClient, isConnected, ledger,
                   mining, miningResult, signerCalls, progress>>

\* a plausible slip: the signer handed a candidate rebuilt for the next nonce
signerArgumentRebuilt(result) ==
    serializeForKastle([result.tx EXCEPT !.payload =
        [result.tx.payload EXCEPT ![66] = IF @ = "0" THEN "1" ELSE "0"]])

\* txJson = serializeForKastle(miningResult.tx)
signerArgument(result) == serializeForKastle(result.tx)

\* mineTxId has returned: serialize and call the signer
SignRequest ==
    /\ pc = "mined"
    /\ call.entry = "executeBridgeWithMining"
    /\ progress' = say(call.hasCallback, progress,
                       <<"Found", "TX ID", "Nonce", "Transaction built">>)
    /\ signerCalls' = Append(signerCalls, signerArgument(miningResult))
    /\ pc' = "signing"
    /\ UNCHANGED <<pureVars, rpc, wasmInit, ui, fallback, sendCalls,
                   call, wasmInitialized, rpcClient, isConnected, ledger,
                   mining, miningResult, outcome>>

\* identifiers the signer may report: the mined one, or another when the
\* wallet changed the transaction (e.g. the UTXOs were respent)
BroadcastIds == IF pc = "signing" THEN {miningResult.txId, MismatchId} ELSE {}

\* the signer resolves with the broadcast identifier
SignResolve(txId) ==
    LET expectedPrefix == toLowerCase(TX_ID_PREFIX)
        actualPrefix == toLowerCase(slice0(txId, Len(expectedPrefix)))
    IN
    /\ pc = "signing"
    /\ progress' = say(call.hasCallback, progress,
                       <<"Submitted">> \o
                       (IF actualPrefix # expectedPrefix
                        THEN <<"Warning: Broadcast TX ID differs", "UTXOs changed">>
                        ELSE <<"Prefix verified">>))
    /\ outcome' = [value |-> [l2Address |-> call.params.l2Address,
                              amountSompi |-> call.amountSompi,
                              nonce |-> miningResult.nonce,
                              txId |-> txId,
                              iterations |-> miningResult.iterations],
                   kind |-> "resolved"]
    /\ pc' = "done"
    /\ UNCHANGED <<pureVars, rpc, wasmInit, ui, fallback, sendCalls,
                   call, wasmInitialized, rpcClient, isConnected, ledger,
                   mining, miningResult, signerCalls>>

\* the signer rejects (the user declines, the wallet is missing or fails)
SignReject ==
    /\ pc = "signing"
    /\ reject(Err("SignerRejected"))
    /\ UNCHANGED <<pureVars, rpc, wasmInit, ui, fallback, sendCalls,
                   call, wasmInitialized, rpcClient, isConnected, ledger,
                   mining, miningResult, signerCalls, progress>>

(***************************************************************************)
(* bridge.ts: executeBridge, the fallback without mining                   *)
(***************************************************************************)
\* executeBridge up to its await: validation, the conversion, the nonce
\* drawn by generateRandomNonce, the payload and its decoding, and
\* sendKaspaWithPayload up to kastle.sendKaspa
ExecuteBridge(params, onProgress, nonce) ==
    LET v == validateBridgeParams(params)
        amountSompi == kasToSompi(params.amountKas)
    IN
    /\ pc = "idle"
    /\ IF v # "ok"
       THEN /\ reject(Err(v))
            /\ call' = callOf("executeBridge", params, "", onProgress, 0)
            /\ UNCHANGED <<fallback, sendCalls, progress>>
       ELSE \E payload \in { constructEntryPayload(params.l2Address, BigOfInt(amountSompi),
                                                    nonce) } :
            /\ call' = callOf("executeBridge", params, "", onProgress, amountSompi)
            /\ IF ~payload.ok
               THEN /\ reject(payload)
                    /\ progress' = say(onProgress # "undefined", progress,
                                       <<"Preparing", "Amount", "L2 Address", "Entry Address",
                                         "Generated nonce">>)
                    /\ UNCHANGED <<fallback, sendCalls>>
               ELSE \E decoded \in { decodeEntryPayload(payloadToHex(payload.value)) } :
                    IF ~decoded.ok
                    THEN /\ reject(decoded)
                         /\ progress' = say(onProgress # "undefined", progress,
                                            <<"Preparing", "Amount", "L2 Address",
                                              "Entry Address", "Generated nonce">>)
                         /\ UNCHANGED <<fallback, sendCalls>>
                    ELSE /\ fallback' = [nonce |-> nonce,
                                         payloadHex |-> payloadToHex(payload.value),
                                         decoded |-> decoded.value]
                         /\ progress' = say(onProgress # "undefined", progress,
                                            <<"Preparing", "Amount", "L2 Address",
                                              "Entry Address", "Generated nonce",
                                              "Payload constructed", "Prefix", "L2 Addr",
                                              "Amount", "Nonce", "Sending",
                                              "Required prefix">>)
                         /\ sendCalls' = Append(sendCalls,
                                                [payload |-> payloadToHex(payload.value),
                                                 toAddress |-> ENTRY_ADDRESS,
                                                 sompi |-> amountSompi])
                         /\ pc' = "sending"
                         /\ UNCHANGED outcome
    /\ UNCHANGED <<pureVars, rpc, wasmInit, wasmInitialized, rpcClient, isConnected, ledger,
                   mining, miningResult, signerCalls>>

\* identifiers the wallet may report for the transaction it built itself
SentIds == IF pc = "sending" THEN {MatchingId, MismatchId} ELSE {}

\* kastle.sendKaspa resolves with the identifier of the transaction sent
SendResolve(txId) ==
    LET expectedPrefix == toLowerCase(TX_ID_PREFIX)
        actualPrefix == toLowerCase(slice0(txId, Len(expectedPrefix)))
    IN
    /\ pc = "sending"
    /\ progress' = say(call.hasCallback, progress,
                       <<"Submitted">> \o
                       (IF actualPrefix # expectedPrefix
                        THEN <<"TX ID prefix mismatch", "Expected", "May not recognize",
                               "Consider retrying">>
                        ELSE <<"TX ID prefix matches">>))
    /\ outcome' = [value |-> [l2Address |-> call.params.l2Address,
                              amountSompi |-> call.amountSompi,
                              nonce |-> fallback.nonce,
                              txId |-> txId,
                              iterations |-> 1],
                   kind |-> "resolved"]
    /\ pc' = "done"
    /\ UNCHANGED <<pureVars, rpc, wasmInit, ui, fallback, sendCalls,
                   call, wasmInitialized, rpcClient, isConnected, ledger,
                   mining, miningResult, signerCalls>>

\* the wallet is missing, or the user declines, or the send fails
SendReject ==
    /\ pc = "sending"
    /\ reject(Err("SignerRejected"))
    /\ UNCHANGED <<pureVars, rpc, wasmInit, ui, fallback, sendCalls,
                   call, wasmInitialized, rpcClient, isConnected, ledger,
                   mining, miningResult, signerCalls, progress>>

\* the attempt has settled; the page is ready for the next one
NewAttempt ==
    /\ pc \in {"done", "failed"}
    /\ pc' = "idle"
    /\ call' = NoValue
    /\ mining' = NoValue
    /\ miningResult' = NoValue
    /\ signerCalls' = <<>>
    /\ fallback' = NoValue
    /\ sendCalls' = <<>>
    /\ progress' = <<>>
    /\ outcome' = Pending
    /\ ui' = "none"
    /\ UNCHANGED <<pureVars, rpc, wasmInit, wasmInitialized, rpcClient, isConnected, ledger>>

BridgeInit ==
    /\ pc = "idle"
    /\ rpc = [clients |-> <<>>, calls |-> <<>>, last |-> NoValue]
    /\ wasmInit = "none"
    /\ ui = "none"
    /\ call = NoValue
    /\ wasmInitialized = FALSE
    /\ rpcClient = "null"
    /\ isConnected = FALSE
    /\ mining = NoValue
    /\ miningResult = NoValue
    /\ signerCalls = <<>>
    /\ fallback = NoValue
    /\ sendCalls = <<>>
    /\ progress = <<>>
    /\ outcome = Pending

Init ==
    /\ BridgeInit
    /\ ledger \in Ledgers
    /\ codec = NoValue
    /\ builder = NoValue
    /\ conversion = NoValue

Next ==
    \/ InitKaspaWasm
    \/ InitKaspaWasmResolve
    \/ InitKaspaWasmReject
    \/ \E a \in BridgeAmounts, l \in BridgeAddresses, cb \in Callbacks :
          /\ ExecuteBridgeWithMining([l2Address |-> l, amountKas |-> a], SenderAddress, cb)
          /\ UNCHANGED ui
    \/ \E a \in BridgeAmounts, l \in BridgeAddresses, cb \in Callbacks, n \in StartNonces :
          /\ ExecuteBridge([l2Address |-> l, amountKas |-> a], cb, n)
          /\ UNCHANGED ui
    \/ \E t \in SentIds : SendResolve(t)
    \/ SendReject
    \/ ConnectResolve
    \/ ConnectReject
    \/ \E u \in UtxoLists, s \in StartNonces : FetchResolve(u, s)
    \/ FetchReject
    \/ MineIteration
    \/ MineExhausted
    \/ SignRequest
    \/ \E t \in BroadcastIds : SignResolve(t)
    \/ SignReject
    \/ NewAttempt

Spec == Init /\ [][Next]_vars

(***************************************************************************)
(* The bridge together with direct calls of the exported mineTxId, which   *)
(* validates nothing itself.                                               *)
(***************************************************************************)
MinerAddresses == { AddrMixed, AddrNoPrefix, AddrShort, AddrLong, AddrNonHex }

MinerCallbacks == { "undefined", "log" }

MinerNext ==
    \/ Next
    \/ \E l \in MinerAddresses, cb \in MinerCallbacks :
          MineTxId(SenderAddress, l, kasToSompi(Finite(1, 1)), cb)
    \/ MineReturn

SpecMiner == Init /\ [][MinerNext]_vars

(***************************************************************************)
(* The payload codec on its own: an input is drawn, encoded as             *)
(* executeBridge encodes it (constructEntryPayload, payloadToHex) and      *)
(* decoded as executeBridge decodes it (decodeEntryPayload).               *)
(***************************************************************************)
CodecAddresses == { AddrLower, AddrMixed, AddrNoPrefix, AddrShort, AddrLong, AddrNonHex }

\* bigints: 0, 1, 10^8, 0x77359400, 0x0102030405060708, 2^63, 2^64 - 1
CodecAmounts == { <<0, 0, 0, 0>>, <<1, 0, 0, 0>>, <<57600, 1525, 0, 0>>,
                  <<37888, 30517, 0, 0>>, <<1800, 1286, 772, 258>>,
                  <<0, 0, 0, 32768>>, <<65535, 65535, 65535, 65535>> }

\* numbers: 0, 1, 0x01020304, 0x7FFFFFFF, 0x80000000, 0xFFFFFFFE, 0xFFFFFFFF
CodecNonces == { Num(0, 0), Num(0, 1), Num(258, 772), Num(32767, 65535),
                 Num(32768, 0), Num(65535, 65534), Num(65535, 65535) }

CodecInit ==
    /\ BridgeInit
    /\ ledger = [modulus |-> 0, residue |-> 0, upper |-> FALSE]
    /\ builder = NoValue
    /\ conversion = NoValue
    /\ codec \in { [pc |-> "input", payload |-> NoValue, l2Address |-> a, amountSompi |-> m,
                    nonce |-> n, payloadHex |-> NoValue, decoded |-> NoValue] :
                   a \in CodecAddresses, m \in CodecAmounts, n \in CodecNonces }

CodecEncode ==
    /\ codec.pc = "input"
    /\ \E payload \in { constructEntryPayload(codec.l2Address, codec.amountSompi,
                                              codec.nonce) } :
          codec' = [codec EXCEPT
                       !.pc = IF payload.ok THEN "encoded" ELSE "rejected",
                       !.payload = payload,
                       !.payloadHex = IF payload.ok THEN payloadToHex(payload.value)
                                      ELSE NoValue]
    /\ UNCHANGED <<builder, conversion, bridgeVars>>

CodecDecode ==
    /\ codec.pc = "encoded"
    /\ codec' = [codec EXCEPT !.pc = "decoded",
                              !.decoded = decodeEntryPayload(codec.payloadHex)]
    /\ UNCHANGED <<builder, conversion, bridgeVars>>

\* hex strings a caller may hand to decodeEntryPayload besides the payload
\* itself: the payload cut or extended by one, two or three characters,
\* and the empty string
otherInputs(payloadHex) ==
    { SubSeq(payloadHex, 1, 63), SubSeq(payloadHex, 1, 64), SubSeq(payloadHex, 1, 65),
      payloadHex \o <<"0">>, payloadHex \o <<"0", "0">>,
      payloadHex \o <<"0", "0", "0">>, <<>> }

DecodeInputs == IF codec.pc = "encoded" THEN otherInputs(codec.payloadHex) ELSE {}

\* decodeEntryPayload applied to another input
CodecDecodeOther(hex) ==
    /\ codec.pc = "encoded"
    /\ codec' = [codec EXCEPT !.pc = "decodedOther",
                              !.payloadHex = hex,
                              !.decoded = decodeEntryPayload(hex)]
    /\ UNCHANGED <<builder, conversion, bridgeVars>>

CodecNext ==
    \/ CodecEncode
    \/ CodecDecode
    \/ \E hex \in DecodeInputs : CodecDecodeOther(hex)

SpecCodec == CodecInit /\ [][CodecNext]_vars

(***************************************************************************)
(* The transaction builder on its own: one input is drawn and              *)
(* buildEntryTransaction is applied to it for a nonce, then for another    *)
(* nonce, as two passes of the mining loop apply it.                       *)
(***************************************************************************)
\* sompi amounts of the two acceptable bridge amounts: 1 KAS and 1.5 KAS
BuilderAmounts == { kasToSompi(Finite(1, 1)), kasToSompi(Finite(3, 2)) }

BuilderUtxoLists == UtxoLists \ { <<>> }

BuilderNonces == { Num(0, 1), Num(65535, 65534) }

BuilderOtherNonces == { Num(0, 0), Num(0, 1), Num(32767, 65535) }

BuilderInit ==
    /\ BridgeInit
    /\ ledger = [modulus |-> 0, residue |-> 0, upper |-> FALSE]
    /\ codec = NoValue
    /\ conversion = NoValue
    /\ builder \in { [pc |-> "input", l2Address |-> a, amountSompi |-> m, nonce |-> n,
                      utxos |-> u, built |-> NoValue, otherNonce |-> o,
                      rebuilt |-> NoValue] :
                     u \in BuilderUtxoLists, m \in BuilderAmounts, a \in CodecAddresses,
                     n \in BuilderNonces, o \in BuilderOtherNonces }

BuilderBuild ==
    /\ builder.pc = "input"
    /\ \E built \in { buildEntryTransaction(builder.utxos, SenderAddress, ENTRY_ADDRESS,
                                            builder.amountSompi, builder.l2Address,
                                            builder.nonce) } :
          builder' = [builder EXCEPT !.pc = "built", !.built = built]
    /\ UNCHANGED <<codec, conversion, bridgeVars>>

BuilderRebuild ==
    /\ builder.pc = "built"
    /\ \E built \in { buildEntryTransaction(builder.utxos, SenderAddress, ENTRY_ADDRESS,
                                            builder.amountSompi, builder.l2Address,
                                            builder.otherNonce) } :
          builder' = [builder EXCEPT !.pc = "rebuilt", !.rebuilt = built]
    /\ UNCHANGED <<codec, conversion, bridgeVars>>

BuilderNext == BuilderBuild \/ BuilderRebuild

SpecBuilder == BuilderInit /\ [][BuilderNext]_vars

(***************************************************************************)
(* The amount on its way from the form to the transaction: main.ts         *)
(* handleBridge reads and checks the text, executeBridgeWithMining         *)
(* validates and converts it, mineTxId hands the result to the builder.    *)
(***************************************************************************)
DecimalChars == {"0", "1", "2", "3", "4", "5", "6", "7", "8", "9"}

RECURSIVE decimalOf(_)
decimalOf(chars) ==
    IF chars = <<>> THEN 0
    ELSE 10 * decimalOf(SubSeq(chars, 1, Len(chars) - 1)) + HexVal(chars[Len(chars)])

RECURSIVE pow10(_)
pow10(k) == IF k = 0 THEN 1 ELSE 10 * pow10(k - 1)

\* parseFloat(amountStr) for the empty text and for texts made of decimal
\* digits with at most one point: the double nearest to the decimal value
parseFloat(str) ==
    LET dots == { k \in 1..Len(str) : str[k] = "." }
        dot  == IF dots = {} THEN Len(str) + 1 ELSE CHOOSE k \in dots : TRUE
        frac == SubSeq(str, dot + 1, Len(str))
    IN  IF str = <<>> THEN NaN
        ELSE Finite(decimalOf(SubSeq(str, 1, dot - 1) \o frac), pow10(Len(frac)))

\* texts of the amount field: empty, whole, two decimals, eight decimals
AmountTexts ==
    { <<>>, <<"1">>, <<"2", ".", "5">>,
      <<"1", ".", "0", "0", "0", "0", "0", "0", "0", "1">>,
      <<"4", ".", "3", "5", "0", "0", "0", "0", "0", "1">> }
    \cup { <<w, ".", a, b>> : w \in {"0", "1", "2", "3"}, a \in DecimalChars,
                              b \in DecimalChars }

\* one UTXO, large enough for every amount above
AmountUtxos == makeUtxos(<<1000000000>>)

AmountInit ==
    /\ BridgeInit
    /\ ledger = [modulus |-> 0, residue |-> 0, upper |-> FALSE]
    /\ codec = NoValue
    /\ builder = NoValue
    /\ conversion \in { [pc |-> "input", amountSompi |-> NoValue, amount |-> NoValue,
                         built |-> NoValue, amountStr |-> t] : t \in AmountTexts }

\* handleBridge: amount = parseFloat(amountStr); an amount that is NaN or
\* below the minimum is refused with a message
AmountParse ==
    /\ conversion.pc = "input"
    /\ \E amount \in { parseFloat(conversion.amountStr) } :
          conversion' = [conversion EXCEPT
              !.amount = amount,
              !.pc = IF amount.kind = "NaN" \/ numberLess(amount, MIN_BRIDGE_AMOUNT_KAS)
                     THEN "refused" ELSE "parsed"]
    /\ UNCHANGED <<codec, builder, bridgeVars>>

\* executeBridgeWithMining: validateBridgeParams(params), then
\* amountSompi = kasToSompi(amountKas)
AmountConvert ==
    /\ conversion.pc = "parsed"
    /\ IF validateBridgeParams([l2Address |-> AddrLower, amountKas |-> conversion.amount])
          # "ok"
       THEN conversion' = [conversion EXCEPT !.pc = "rejected"]
       ELSE \E amountSompi \in { kasToSompi(conversion.amount) } :
               conversion' = [conversion EXCEPT !.pc = "converted",
                                                !.amountSompi = amountSompi]
    /\ UNCHANGED <<codec, builder, bridgeVars>>

\* mineTxId: buildEntryTransaction(kaspa, utxos, ..., amountSompi, l2Address, nonce)
AmountBuild ==
    /\ conversion.pc = "converted"
    /\ \E built \in { buildEntryTransaction(AmountUtxos, SenderAddress, ENTRY_ADDRESS,
                                            conversion.amountSompi, AddrLower, Num(0, 1)) } :
          conversion' = [conversion EXCEPT !.pc = "built", !.built = built]
    /\ UNCHANGED <<codec, builder, bridgeVars>>

AmountNext == AmountParse \/ AmountConvert \/ AmountBuild

SpecAmount == AmountInit /\ [][AmountNext]_vars

(***************************************************************************)
(* tx-miner.ts: initRpcConnection, getUtxos, submitTransaction and         *)
(* disconnectRpc called on their own, any number of them in flight at      *)
(* once. One action per run-to-completion segment between awaits.          *)
(*   rpcClient    "null", or the name of the client object it refers to    *)
(*   rpc.clients  the client objects created so far, each "connecting",    *)
(*                "connected" (its connect() has resolved), "failed" (its  *)
(*                connect() has rejected) or "closed" (its disconnect()    *)
(*                has resolved)                                            *)
(*   rpc.calls    the calls suspended at an await, each with the client    *)
(*                whose method it awaits                                   *)
(*   rpc.last     what the latest segment did                              *)
(***************************************************************************)
\* calls in flight at once, and client objects created in one run
MaxRpcCalls == 2
MaxClients == 2

\* the k-th client object created is named ClientNames[k]
ClientNames == <<"client1", "client2", "client3", "client4">>

clientNo(name) == CHOOSE k \in 1..Len(ClientNames) : ClientNames[k] = name

\* the state of the client object rpcClient refers to
clientState == rpc.clients[clientNo(rpcClient)]

RpcQueries == {"getUtxos", "submitTransaction"}

event(fn, kind, error, client, state) ==
    [error |-> error, kind |-> kind, fn |-> fn, client |-> client, state |-> state]

removeAt(q, k) == SubSeq(q, 1, k - 1) \o SubSeq(q, k + 1, Len(q))

\* the calls in flight that await the given methods
awaiting(fns) == { k \in 1..Len(rpc.calls) : rpc.calls[k].fn \in fns }

\* initRpcConnection up to await rpcClient.connect()
InitRpcConnection ==
    /\ Len(rpc.calls) < MaxRpcCalls
    /\ IF ~wasmInitialized
       THEN /\ rpc' = [rpc EXCEPT !.last = event("initRpcConnection", "rejected",
                                                 "WasmNotInitialized", "null", "none")]
            /\ UNCHANGED rpcClient
       ELSE IF isConnected /\ rpcClient # "null"
       THEN /\ rpc' = [rpc EXCEPT !.last = event("initRpcConnection", "resolved", "none",
                                                 rpcClient, "none")]
            /\ UNCHANGED rpcClient
       ELSE /\ Len(rpc.clients) < MaxClients
            /\ rpcClient' = ClientNames[Len(rpc.clients) + 1]
            /\ rpc' = [clients |-> Append(rpc.clients, "connecting"),
                       calls |-> Append(rpc.calls, [fn |-> "initRpcConnection",
                                                    client |-> Len(rpc.clients) + 1]),
                       last |-> event("initRpcConnection", "created", "none",
                                      ClientNames[Len(rpc.clients) + 1], "connecting")]
    /\ UNCHANGED <<pureVars, wasmInit, ui, fallback, sendCalls, pc, call, wasmInitialized,
                   isConnected, ledger, mining, miningResult, signerCalls, progress,
                   outcome>>

\* connect() of call k's client resolves: isConnected = true
RpcConnectResolve(k) ==
    /\ rpc.calls[k].fn = "initRpcConnection"
    /\ isConnected' = TRUE
    /\ rpc' = [clients |-> [rpc.clients EXCEPT ![rpc.calls[k].client] = "connected"],
               calls |-> removeAt(rpc.calls, k),
               last |-> event("initRpcConnection", "resolved", "none",
                              ClientNames[rpc.calls[k].client], "connected")]
    /\ UNCHANGED <<pureVars, wasmInit, ui, fallback, sendCalls, pc, call, wasmInitialized,
                   rpcClient, ledger, mining, miningResult, signerCalls, progress,
                   outcome>>

\* connect() of call k's client rejects: the catch block rethrows
RpcConnectReject(k) ==
    /\ rpc.calls[k].fn = "initRpcConnection"
    /\ rpc' = [clients |-> [rpc.clients EXCEPT ![rpc.calls[k].client] = "failed"],
               calls |-> removeAt(rpc.calls, k),
               last |-> event("initRpcConnection", "rejected", "RpcUnavailable",
                              ClientNames[rpc.calls[k].client], "failed")]
    /\ UNCHANGED <<pureVars, wasmInit, ui, fallback, sendCalls, pc, call, wasmInitialized,
                   rpcClient, isConnected, ledger, mining, miningResult, signerCalls,
                   progress, outcome>>

\* the guard shared by getUtxos and submitTransaction, then the method of
\* rpcClient invoked: if (!rpcClient || !isConnected) throw ...
useClient(fn) ==
    IF rpcClient = "null" \/ ~isConnected
    THEN [rpc EXCEPT !.last = event(fn, "rejected", "RpcNotConnected", rpcClient, "none")]
    ELSE [rpc EXCEPT !.calls = Append(@, [fn |-> fn, client |-> clientNo(rpcClient)]),
                     !.last = event(fn, "used", "none", rpcClient, clientState)]

\* getUtxos up to await rpcClient.getUtxosByAddresses([address])
GetUtxos ==
    /\ Len(rpc.calls) < MaxRpcCalls
    /\ rpc' = useClient("getUtxos")
    /\ UNCHANGED <<pureVars, wasmInit, ui, fallback, sendCalls, pc, call, wasmInitialized,
                   rpcClient, isConnected, ledger, mining, miningResult, signerCalls,
                   progress, outcome>>

\* submitTransaction up to await rpcClient.submitTransaction(...)
SubmitTransaction ==
    /\ Len(rpc.calls) < MaxRpcCalls
    /\ rpc' = useClient("submitTransaction")
    /\ UNCHANGED <<pureVars, wasmInit, ui, fallback, sendCalls, pc, call, wasmInitialized,
                   rpcClient, isConnected, ledger, mining, miningResult, signerCalls,
                   progress, outcome>>

\* the response of call k's query arrives, or its promise rejects
RpcQueryReturn(k, ok) ==
    /\ rpc.calls[k].fn \in RpcQueries
    /\ rpc' = [rpc EXCEPT !.calls = removeAt(@, k),
                          !.last = event(rpc.calls[k].fn,
                                         IF ok THEN "resolved" ELSE "rejected",
                                         IF ok THEN "none" ELSE "RpcUnavailable",
                                         ClientNames[rpc.calls[k].client],
                                         rpc.clients[rpc.calls[k].client])]
    /\ UNCHANGED <<pureVars, wasmInit, ui, fallback, sendCalls, pc, call, wasmInitialized,
                   rpcClient, isConnected, ledger, mining, miningResult, signerCalls,
                   progress, outcome>>

\* disconnectRpc up to await rpcClient.disconnect()
DisconnectRpc ==
    /\ Len(rpc.calls) < MaxRpcCalls
    /\ IF rpcClient # "null" /\ isConnected
       THEN rpc' = [rpc EXCEPT !.calls = Append(@, [fn |-> "disconnectRpc",
                                                    client |-> clientNo(rpcClient)]),
                               !.last = event("disconnectRpc", "closing", "none", rpcClient,
                                              clientState)]
       ELSE rpc' = [rpc EXCEPT !.last = event("disconnectRpc", "resolved", "none",
                                              rpcClient, "none")]
    /\ UNCHANGED <<pureVars, wasmInit, ui, fallback, sendCalls, pc, call, wasmInitialized,
                   rpcClient, isConnected, ledger, mining, miningResult, signerCalls,
                   progress, outcome>>

\* disconnect() of call k's client resolves: isConnected = false; rpcClient = null
RpcDisconnectResolve(k) ==
    /\ rpc.calls[k].fn = "disconnectRpc"
    /\ isConnected' = FALSE
    /\ rpcClient' = "null"
    /\ rpc' = [clients |-> [rpc.clients EXCEPT ![rpc.calls[k].client] = "closed"],
               calls |-> removeAt(rpc.calls, k),
               last |-> event("disconnectRpc", "resolved", "none",
                              ClientNames[rpc.calls[k].client], "closed")]
    /\ UNCHANGED <<pureVars, wasmInit, ui, fallback, sendCalls, pc, call, wasmInitialized,
                   ledger, mining, miningResult, signerCalls, progress, outcome>>

\* disconnect() of call k's client rejects: the two assignments are skipped
RpcDisconnectReject(k) ==
    /\ rpc.calls[k].fn = "disconnectRpc"
    /\ rpc' = [rpc EXCEPT !.calls = removeAt(@, k),
                          !.last = event("disconnectRpc", "rejected", "RpcUnavailable",
                                         ClientNames[rpc.calls[k].client],
                                         rpc.clients[rpc.calls[k].client])]
    /\ UNCHANGED <<pureVars, wasmInit, ui, fallback, sendCalls, pc, call, wasmInitialized,
                   rpcClient, isConnected, ledger, mining, miningResult, signerCalls,
                   progress, outcome>>

RpcInit ==
    /\ BridgeInit
    /\ ledger = [modulus |-> 0, residue |-> 0, upper |-> FALSE]
    /\ codec = NoValue
    /\ builder = NoValue
    /\ conversion = NoValue

RpcNext ==
    \/ InitKaspaWasm
    \/ InitKaspaWasmResolve
    \/ InitKaspaWasmReject
    \/ InitRpcConnection
    \/ \E k \in awaiting({"initRpcConnection"}) : RpcConnectResolve(k)
    \/ \E k \in awaiting({"initRpcConnection"}) : RpcConnectReject(k)
    \/ GetUtxos
    \/ SubmitTransaction
    \/ \E k \in awaiting(RpcQueries), ok \in BOOLEAN : RpcQueryReturn(k, ok)
    \/ DisconnectRpc
    \/ \E k \in awaiting({"disconnectRpc"}) : RpcDisconnectResolve(k)
    \/ \E k \in awaiting({"disconnectRpc"}) : RpcDisconnectReject(k)

SpecRpc == RpcInit /\ [][RpcNext]_vars

(***************************************************************************)
(* main.ts handleBridge, and with it every function that asks              *)
(* isWasmInitialized(): executeBridgeWithMining, mineTxId and              *)
(* initRpcConnection called on their own, while initKaspaWasm may be       *)
(* anywhere on its way.                                                    *)
(***************************************************************************)
\* a plausible slip: the mining path offered whatever the state of the module
isMiningAvailableAlways == TRUE

\* bridge.ts isMiningAvailable: return isWasmInitialized()
isMiningAvailable == wasmInitialized

\* handleBridge up to the first pending await of the call it makes:
\* ui is "refused" after a message and return, "mining" or "fallback"
\* after the branch taken
HandleBridge(connected, amountStr, l2Address, nonce) ==
    \E amount \in { parseFloat(amountStr) } :
       IF \/ ~connected
          \/ amount.kind = "NaN"
          \/ numberLess(amount, MIN_BRIDGE_AMOUNT_KAS)
          \/ ~isValidL2Address(l2Address)
       THEN /\ pc = "idle"
            /\ ui' = "refused"
            /\ UNCHANGED <<pureVars, rpc, wasmInit, fallback, sendCalls, pc, call,
                           wasmInitialized, rpcClient, isConnected, ledger, mining,
                           miningResult, signerCalls, progress, outcome>>
       ELSE IF isMiningAvailable
       THEN /\ ExecuteBridgeWithMining([l2Address |-> l2Address, amountKas |-> amount],
                                       SenderAddress, "log")
            /\ ui' = "mining"
       ELSE /\ ExecuteBridge([l2Address |-> l2Address, amountKas |-> amount], "log", nonce)
            /\ ui' = "fallback"

UiAmountTexts == { <<>>, <<"1">>, <<"0", ".", "5">> }

UiAddresses == { AddrLower, AddrShort }

UiInit ==
    /\ BridgeInit
    /\ ledger \in { [modulus |-> 0, residue |-> 0, upper |-> FALSE],
                     [modulus |-> 1, residue |-> 0, upper |-> TRUE] }
    /\ codec = NoValue
    /\ builder = NoValue
    /\ conversion = NoValue

UiNext ==
    \/ InitKaspaWasm
    \/ InitKaspaWasmResolve
    \/ InitKaspaWasmReject
    \/ \E c \in BOOLEAN, t \in UiAmountTexts, l \in UiAddresses :
          HandleBridge(c, t, l, Num(0, 1))
    \/ /\ ExecuteBridgeWithMining([l2Address |-> AddrLower, amountKas |-> Finite(1, 1)],
                                   SenderAddress, "undefined")
       /\ UNCHANGED ui
    \/ MineTxId(SenderAddress, AddrLower, kasToSompi(Finite(1, 1)), "undefined")
    \/ InitRpcConnection
    \/ \E k \in awaiting({"initRpcConnection"}) : RpcConnectResolve(k)
    \/ \E k \in awaiting({"initRpcConnection"}) : RpcConnectReject(k)
    \/ ConnectResolve
    \/ ConnectReject
    \/ FetchResolve(makeUtxos(<<100010001>>), Num(0, 1))
    \/ FetchReject
    \/ MineIteration
    \/ MineExhausted
    \/ MineReturn
    \/ SignRequest
    \/ \E t \in BroadcastIds : SignResolve(t)
    \/ SignReject
    \/ \E t \in SentIds : SendResolve(t)
    \/ SendReject
    \/ NewAttempt

SpecUi == UiInit /\ [][UiNext]_vars

(***************************************************************************)
(* Properties                                                              *)
(***************************************************************************)
Range(q) == { q[k] : k \in 1..Len(q) }

\* C5: round trip - decoding the hex of an encoded payload returns the
\* address (compared as hex, case-insensitively), the amount and the nonce
\* that were encoded.
RoundTripLaw ==
    codec # NoValue /\ codec.pc = "decoded" =>
        /\ codec.decoded.ok
        /\ toLowerCase(codec.decoded.value.l2Address) = toLowerCase(codec.l2Address)
        /\ codec.decoded.value.amountSompi = codec.amountSompi
        /\ codec.decoded.value.nonce = codec.nonce

\* the byte of a bigint at little-endian position i (0 = least significant)
bigintByte(v, i) ==
    IF i % 2 = 0 THEN v[(i \div 2) + 1] % 256 ELSE v[(i \div 2) + 1] \div 256

hasMined == miningResult # NoValue

rejectedWith(e) == outcome.kind = "rejected" /\ outcome.error.error = e

\* C1: the signer is called at most once per attempt, only once mineTxId
\* has returned a result, and with the serialization of exactly the mined
\* transaction; when the UTXO fetch, the build or the mining fails the
\* signer has not been called.
SignerOnlyAfterMining ==
    /\ Len(signerCalls) <= 1
    /\ signerCalls # <<>> =>
          /\ hasMined
          /\ pc \in {"signing", "done", "failed"}
          /\ signerCalls[1] = [json |-> miningResult.tx]
    /\ ~hasMined => signerCalls = <<>>
    /\ (\/ rejectedWith("RpcUnavailable")
        \/ rejectedWith("NoUtxos")
        \/ rejectedWith("InsufficientFunds")
        \/ rejectedWith("MiningTimeout")) => signerCalls = <<>> /\ ~hasMined

SignerOnlyAfterMiningWitness ==
    /\ pc = "signing"
    /\ Len(signerCalls) = 1
    /\ hasMined
    /\ miningResult.iterations > 1

\* C2: a result of mineTxId carries an identifier that starts with the
\* required prefix 97b4 in either letter case, the transaction that the
\* builder yields for the returned nonce, and the identifier of that
\* transaction.
MinedResultMatches ==
    hasMined =>
        /\ Len(miningResult.txId) >= 4
        /\ miningResult.txId[1] = "9"
        /\ miningResult.txId[2] = "7"
        /\ miningResult.txId[3] \in {"b", "B"}
        /\ miningResult.txId[4] = "4"
        /\ Ok(miningResult.tx) =
              buildEntryTransaction(mining.utxos, call.senderAddress, ENTRY_ADDRESS,
                                    call.amountSompi, call.params.l2Address,
                                    miningResult.nonce)
        /\ miningResult.txId = ledgerId(ledger, miningResult.tx)

MinedResultMatchesWitness ==
    /\ hasMined
    /\ miningResult.txId[3] = "B"
    /\ miningResult.iterations > 1

\* n + k modulo 2^32, for a uint32 n and a small k
plusMod32(n, k) ==
    LET lo == n[2] + k
    IN  <<(n[1] + (lo \div Limb)) % Limb, lo % Limb>>

\* whether the ledger's schedule gives the candidate of this nonce the prefix
scheduleMatches(n) ==
    /\ ledger.modulus > 0
    /\ (n[1] * (Limb % ledger.modulus) + n[2]) % ledger.modulus = ledger.residue

\* C3: the miner performs at most MAX_NONCE_ITERATIONS iterations; when none
\* of them matches it fails with the mining-timeout error, which reports
\* that bound, and it has returned nothing; whatever it returns matches.
MiningBounded ==
    /\ mining # NoValue => mining.i <= MAX_NONCE_ITERATIONS
    /\ hasMined =>
          /\ miningResult.iterations <= MAX_NONCE_ITERATIONS
          /\ scheduleMatches(miningResult.nonce)
    /\ (pc = "mining" /\ mining.i = MAX_NONCE_ITERATIONS) =>
          /\ ENABLED MineExhausted
          /\ ~ENABLED MineIteration
    /\ rejectedWith("MiningTimeout") =>
          /\ outcome.error.iterations = MAX_NONCE_ITERATIONS
          /\ mining.i = MAX_NONCE_ITERATIONS
          /\ ~hasMined
          /\ \A k \in 0..(MAX_NONCE_ITERATIONS - 1) :
                ~scheduleMatches(plusMod32(mining.start, k))

MiningBoundedWitness ==
    /\ rejectedWith("MiningTimeout")
    /\ ledger.modulus = 7
    /\ mining.i = MAX_NONCE_ITERATIONS

\* what the caller of executeBridgeWithMining has been told of the outcome:
\* the promise's settlement and the warning, if it was delivered
reportedOutcome ==
    IF outcome.kind = "rejected" THEN "failure"
    ELSE IF outcome.kind = "pending" THEN "pending"
    ELSE IF "Warning: Broadcast TX ID differs" \in Range(progress) THEN "degraded success"
    ELSE "success"

hasRequiredPrefix(txId) ==
    /\ Len(txId) >= 4
    /\ txId[1] = "9" /\ txId[2] = "7" /\ txId[3] \in {"b", "B"} /\ txId[4] = "4"

\* C4: when the identifier the signer returns lacks the required prefix the
\* caller is told a degraded success, distinct from the full success,
\* whether or not a progress callback was supplied.
MismatchReportedDistinctly ==
    outcome.kind = "resolved" =>
        (reportedOutcome = "success" <=> hasRequiredPrefix(outcome.value.txId))

\* the total of the UTXOs a transaction spends
RECURSIVE sumAmounts(_)
sumAmounts(inputs) ==
    IF inputs = <<>> THEN 0 ELSE Head(inputs).utxo.amount + sumAmounts(Tail(inputs))

\* C7: a built transaction spends UTXOs whose total is at least
\* amount + feeBuffer (10,000 sompi); a set that cannot reach it fails with
\* InsufficientFunds instead of being built.
SelectionCoversFeeBuffer ==
    hasMined => sumAmounts(miningResult.tx.inputs) >= call.amountSompi + 10000

\* C8: in every built transaction output 0 pays exactly amountSompi to the
\* locking script of the Entry address.
EntryOutputFirst ==
    hasMined =>
        /\ Len(miningResult.tx.outputs) >= 1
        /\ miningResult.tx.outputs[1].value = call.amountSompi
        /\ miningResult.tx.outputs[1].value = kasToSompi(call.params.amountKas)
        /\ miningResult.tx.outputs[1].scriptPublicKey = payToAddressScript(ENTRY_ADDRESS)
        /\ signerCalls # <<>> => signerCalls[1].json.outputs[1].value = call.amountSompi

EntryOutputFirstWitness ==
    /\ hasMined
    /\ Len(miningResult.tx.outputs) = 2
    /\ Len(miningResult.tx.inputs) = 2
    /\ miningResult.tx.outputs[2].scriptPublicKey = payToAddressScript(SenderAddress)

\* C9: during the search the nonce is the start nonce plus the number of
\* non-matching iterations modulo 2^32, a value in 0 .. 2^32 - 1; from
\* 0xFFFFFFFE two non-matching iterations lead to 0.
NonceWraps ==
    mining # NoValue =>
        /\ mining.nonce = plusMod32(mining.start, mining.i)
        /\ mining.nonce[1] \in 0..65535
        /\ mining.nonce[2] \in 0..65535
        /\ (mining.start = Num(65535, 65534) /\ mining.i = 2) => mining.nonce = Num(0, 0)

NonceWrapsWitness ==
    /\ pc = "mining"
    /\ mining.start = Num(65535, 65534)
    /\ mining.i = 2
    /\ mining.nonce = Num(0, 0)

\* C10: the miner returns the first nonce of start, start + 1, ... (mod
\* 2^32) whose candidate matches, and the iteration count it reports is
\* ((nonce - start) mod 2^32) + 1.
FirstMatchReturned ==
    hasMined =>
        /\ miningResult.iterations >= 1
        /\ miningResult.nonce = plusMod32(mining.start, miningResult.iterations - 1)
        /\ scheduleMatches(miningResult.nonce)
        /\ \A k \in 0..(miningResult.iterations - 2) :
              ~scheduleMatches(plusMod32(mining.start, k))

FirstMatchReturnedWitness ==
    /\ hasMined
    /\ ledger.modulus = 7
    /\ mining.start = Num(65535, 65534)
    /\ miningResult.iterations = 3
    /\ miningResult.nonce = Num(0, 0)

(***************************************************************************)
(* Properties of validation                                                *)
(***************************************************************************)
\* the amount is a finite number of at least 1 KAS
goodAmount(a) == a.kind = "finite" /\ a.num >= a.den /\ a.num > 0

\* the address is 0x followed by exactly 40 hex digits
goodAddress(l) ==
    /\ Len(l) = 42
    /\ SubSeq(l, 1, 2) = <<"0", "x">>
    /\ \A k \in 3..42 : l[k] \in Range(LowerHex) \cup Range(UpperHex)

\* C11: an attempt of executeBridge or executeBridgeWithMining whose params
\* are invalid fails in the step that starts it, leaving the RPC client and
\* its connection flag as they were; it never has UTXOs, a mining loop, a
\* mined result, a payload, a progress message or a call to the wallet.
ValidationBeforeNetwork ==
    /\ [](call # NoValue /\ ~(goodAmount(call.params.amountKas)
                              /\ goodAddress(call.params.l2Address)) =>
            /\ pc = "failed"
            /\ outcome.kind = "rejected"
            /\ outcome.error.error \in {"MinimumAmount", "InvalidAmount", "InvalidAddress"}
            /\ mining = NoValue
            /\ miningResult = NoValue
            /\ fallback = NoValue
            /\ signerCalls = <<>>
            /\ sendCalls = <<>>
            /\ progress = <<>>)
    /\ [][(call = NoValue /\ call' # NoValue
            /\ ~(goodAmount(call'.params.amountKas) /\ goodAddress(call'.params.l2Address))) =>
              /\ pc' = "failed"
              /\ rpcClient' = rpcClient
              /\ isConnected' = isConnected]_vars

ValidationBeforeNetworkWitness ==
    /\ pc = "failed"
    /\ call.entry = "executeBridgeWithMining"
    /\ rejectedWith("InvalidAddress")
    /\ wasmInitialized
    /\ isConnected

\* C12: validateBridgeParams accepts exactly the params whose amount is
\* finite and at least 1 KAS and whose address is 0x followed by 40 hex
\* digits; every other amount (NaN, an infinity, zero, negative, below the
\* minimum) is answered with an amount error, and an acceptable amount with
\* any other address with the address error; the attempt settles with
\* that error.
ValidateAcceptsExactly ==
    call # NoValue =>
        LET v == validateBridgeParams(call.params)
            amountOk == goodAmount(call.params.amountKas)
            addressOk == goodAddress(call.params.l2Address)
        IN  /\ v = "ok" <=> (amountOk /\ addressOk)
            /\ ~amountOk => v \in {"MinimumAmount", "InvalidAmount"}
            /\ (amountOk /\ ~addressOk) => v = "InvalidAddress"
            /\ v # "ok" => rejectedWith(v)
            /\ v = "ok" => ~(\/ rejectedWith("MinimumAmount")
                             \/ rejectedWith("InvalidAmount")
                             \/ rejectedWith("InvalidAddress"))

ValidateAcceptsExactlyWitness ==
    /\ call # NoValue
    /\ call.params.amountKas = Infinity
    /\ call.params.l2Address = AddrLong
    /\ rejectedWith("InvalidAmount")

(***************************************************************************)
(* Properties of the transaction builder                                   *)
(***************************************************************************)
\* the total of a list of UTXOs
RECURSIVE sumUtxos(_)
sumUtxos(utxos) == IF utxos = <<>> THEN 0 ELSE Head(utxos).amount + sumUtxos(Tail(utxos))

hasBuilt == builder # NoValue /\ builder.pc \in {"built", "rebuilt"}

\* C13: when the UTXOs supplied to buildEntryTransaction total less than the
\* amount it constructs no transaction; for an address the encoder accepts
\* (an invalid one fails before the selection) the failure is
\* InsufficientFunds, reporting the total of all the UTXOs as have and the
\* amount as need.
InsufficientFundsReported ==
    (hasBuilt /\ sumUtxos(builder.utxos) < builder.amountSompi) =>
        /\ ~builder.built.ok
        /\ goodAddress(builder.l2Address) =>
              /\ builder.built.error = "InsufficientFunds"
              /\ builder.built.have = sumUtxos(builder.utxos)
              /\ builder.built.need = builder.amountSompi

InsufficientFundsReportedWitness ==
    /\ hasBuilt
    /\ Len(builder.utxos) = 2
    /\ builder.amountSompi = 150000000
    /\ ~builder.built.ok
    /\ builder.built.error = "InsufficientFunds"
    /\ builder.built.have = 100000000

\* C14: in every built transaction, with change = total of the selected
\* UTXOs - amount - 10,000: when change > 0 there are exactly two outputs
\* and the second pays change to the sender's locking script; otherwise
\* there is exactly one output; every output value is positive.
ChangeOutputRule ==
    (hasBuilt /\ builder.built.ok) =>
        LET tx == builder.built.value
            change == sumAmounts(tx.inputs) - builder.amountSompi - 10000
        IN  /\ change > 0 =>
                  /\ Len(tx.outputs) = 2
                  /\ tx.outputs[2].value = change
                  /\ tx.outputs[2].scriptPublicKey = payToAddressScript(SenderAddress)
            /\ change <= 0 => Len(tx.outputs) = 1
            /\ \A k \in 1..Len(tx.outputs) : tx.outputs[k].value > 0

ChangeOutputRuleWitness ==
    /\ hasBuilt
    /\ builder.built.ok
    /\ Len(builder.built.value.inputs) = 2
    /\ Len(builder.built.value.outputs) = 2
    /\ builder.built.value.outputs[2].value = 50000000

\* C19: two builds from the same UTXOs, addresses and amount for two nonces
\* succeed or fail together, fail with the same error, and when they
\* succeed agree on version, inputs (the selected UTXOs in the order
\* supplied), outputs, lock time, subnetwork id and gas; their payloads
\* are 33 bytes each and agree on bytes 0..28, and differ when the nonces do.
NonceOnlyDiffers ==
    (builder # NoValue /\ builder.pc = "rebuilt") =>
        /\ builder.built.ok = builder.rebuilt.ok
        /\ ~builder.built.ok => builder.built = builder.rebuilt
        /\ builder.built.ok =>
              LET a == builder.built.value
                  b == builder.rebuilt.value
              IN  /\ a.version = b.version
                  /\ a.inputs = b.inputs
                  /\ \A k \in 1..Len(a.inputs) : a.inputs[k].utxo = builder.utxos[k]
                  /\ a.outputs = b.outputs
                  /\ a.lockTime = b.lockTime
                  /\ a.subnetworkId = b.subnetworkId
                  /\ a.gas = b.gas
                  /\ Len(a.payload) = 66
                  /\ Len(b.payload) = 66
                  /\ SubSeq(a.payload, 1, 58) = SubSeq(b.payload, 1, 58)
                  /\ builder.nonce # builder.otherNonce => a.payload # b.payload

NonceOnlyDiffersWitness ==
    /\ builder # NoValue
    /\ builder.pc = "rebuilt"
    /\ builder.built.ok
    /\ builder.nonce = Num(65535, 65534)
    /\ builder.otherNonce = Num(32767, 65535)
    /\ Len(builder.built.value.inputs) = 2
    /\ builder.built.value.payload # builder.rebuilt.value.payload

(***************************************************************************)
(* Properties of the payload length                                        *)
(***************************************************************************)
\* C15: constructEntryPayload returns exactly 33 bytes, and
\* decodeEntryPayload accepts a hex string only when it has exactly 66
\* characters: every other length, odd lengths included, is rejected as a
\* malformed payload.
LengthInvariant ==
    /\ (codec # NoValue /\ codec.pc \in {"encoded", "decoded", "decodedOther"}) =>
          Len(codec.payload.value) = 33
    /\ (codec # NoValue /\ codec.pc \in {"decoded", "decodedOther"}) =>
          IF Len(codec.payloadHex) = 66
          THEN codec.decoded.ok
          ELSE ~codec.decoded.ok /\ codec.decoded.error = "MalformedPayload"

(***************************************************************************)
(* Properties of address rejection                                         *)
(***************************************************************************)
\* C16: a call whose L2 address is not 0x followed by 40 hex digits never
\* yields a payload, a candidate transaction, a mining result, a wallet
\* call or a resolved outcome. executeBridge and executeBridgeWithMining
\* fail in validation, with the address error when the amount is
\* acceptable; constructEntryPayload and buildEntryTransaction fail with
\* the address error; mineTxId called directly fails with it in its first
\* pass, before any identifier is computed or reported.
InvalidAddressRejected ==
    (call # NoValue /\ ~goodAddress(call.params.l2Address)) =>
        /\ fallback = NoValue
        /\ miningResult = NoValue
        /\ signerCalls = <<>>
        /\ sendCalls = <<>>
        /\ outcome.kind # "resolved"
        /\ pc \notin {"mined", "signing", "sending", "done"}
        /\ constructEntryPayload(call.params.l2Address, BigOfInt(call.amountSompi),
                                 Num(0, 1)) = [ok |-> FALSE, error |-> "InvalidAddress"]
        /\ call.entry \in {"executeBridge", "executeBridgeWithMining"} =>
              /\ pc = "failed"
              /\ mining = NoValue
              /\ goodAmount(call.params.amountKas) => rejectedWith("InvalidAddress")
        /\ mining # NoValue =>
              /\ mining.i = 0
              /\ mining.callbacks = <<>>
              /\ buildEntryTransaction(mining.utxos, call.senderAddress, ENTRY_ADDRESS,
                                       call.amountSompi, call.params.l2Address,
                                       mining.nonce)
                    = [ok |-> FALSE, error |-> "InvalidAddress"]
              /\ pc = "failed" => rejectedWith("InvalidAddress")

InvalidAddressRejectedWitness ==
    /\ call # NoValue
    /\ call.entry = "mineTxId"
    /\ call.params.l2Address = AddrLong
    /\ mining # NoValue
    /\ Len(mining.utxos) = 2
    /\ rejectedWith("InvalidAddress")

(***************************************************************************)
(* Properties of progress reporting                                        *)
(***************************************************************************)
\* C17: every invocation of mineTxId's progress callback is for an
\* iteration index that is a multiple of PROGRESS_INTERVAL, and the
\* identifier it is handed does not carry the required prefix: it is never
\* the identifier that ends the search.
ProgressCadence ==
    mining # NoValue =>
        \A k \in 1..Len(mining.callbacks) :
            /\ mining.callbacks[k][1] % PROGRESS_INTERVAL = 0
            /\ mining.callbacks[k][1] <= mining.i
            /\ ~hasRequiredPrefix(mining.callbacks[k][2])
            /\ hasMined => mining.callbacks[k][2] # miningResult.txId

\* the iterations of a search from start whose candidate the ledger's
\* schedule gives the prefix
matchingIterations(start) ==
    { k \in 0..(MAX_NONCE_ITERATIONS - 1) : scheduleMatches(plusMod32(start, k)) }

\* C18: once the loop of mineTxId has ended, its outcome is the one fixed by
\* the UTXOs, the start nonce and the identifier function alone, whatever
\* callback was supplied and whatever it did: InsufficientFunds when the
\* UTXOs cannot cover the amount, else Found at the first matching
\* iteration with its nonce, identifier and count, else Exhausted.
CallbackObservational ==
    (mining # NoValue /\ pc # "mining") =>
        IF sumUtxos(mining.utxos) < call.amountSompi
        THEN ~hasMined /\ rejectedWith("InsufficientFunds")
        ELSE IF matchingIterations(mining.start) = {}
        THEN ~hasMined /\ rejectedWith("MiningTimeout")
        ELSE LET first == CHOOSE k \in matchingIterations(mining.start) :
                              \A j \in matchingIterations(mining.start) : k <= j
             IN  /\ hasMined
                 /\ miningResult.iterations = first + 1
                 /\ miningResult.nonce = plusMod32(mining.start, first)
                 /\ miningResult.txId = ledgerId(ledger, miningResult.tx)

(***************************************************************************)
(* Properties of the start nonce                                           *)
(***************************************************************************)
\* C20: the nonce a mining run starts from and the nonce of a fallback
\* attempt are 32-bit values other than zero, and between attempts no
\* nonce is kept: the locals of the previous attempt are gone.
FreshNonZeroNonce ==
    /\ mining # NoValue =>
          /\ mining.start[1] \in 0..65535
          /\ mining.start[2] \in 0..65535
          /\ mining.start # Num(0, 0)
    /\ fallback # NoValue =>
          /\ fallback.nonce[1] \in 0..65535
          /\ fallback.nonce[2] \in 0..65535
          /\ fallback.nonce # Num(0, 0)
    /\ pc = "idle" => (mining = NoValue /\ fallback = NoValue /\ miningResult = NoValue)

(***************************************************************************)
(* C21: within one mineTxId run, the nonces passed to the builder are      *)
(* pairwise distinct, from the first iteration until a match is found or   *)
(* the iteration bound is reached.                                         *)
(***************************************************************************)
triedNonces == IF mining = NoValue THEN <<>> ELSE mining.tried

\* C21: no two iterations of one mineTxId run hand the builder the same
\* nonce, whether the run is still going, has matched, or has given up
DistinctNonces ==
    \A a, b \in 1..Len(triedNonces) :
        a # b => triedNonces[a] # triedNonces[b]

\* a run that used up every iteration, starting at 0xFFFFFFFE so that the
\* nonce wrapped on the way
DistinctNoncesWitness ==
    /\ pc = "failed"
    /\ rejectedWith("MiningTimeout")
    /\ Len(triedNonces) = MAX_NONCE_ITERATIONS
    /\ triedNonces[1] = Num(65535, 65534)
    /\ triedNonces[3] = Num(0, 0)

(***************************************************************************)
(* C22: the selection takes the UTXOs in the order supplied: the inputs of *)
(* a built transaction are the shortest prefix of the supplied sequence    *)
(* whose total reaches amount + feeBuffer, or the whole sequence when no   *)
(* prefix reaches it, in the same order, each exactly once.                *)
(***************************************************************************)
prefixTotal(utxos, n) == sumUtxos(SubSeq(utxos, 1, n))

\* C22: the inputs of a built transaction are, position by position, the
\* first n supplied UTXOs, where n is the least length whose total reaches
\* amount + 10,000 or else the length of the whole sequence; no outpoint
\* is spent twice
SelectionInOrder ==
    (hasBuilt /\ builder.built.ok) =>
        LET tx == builder.built.value
            n  == Len(tx.inputs)
            target == builder.amountSompi + 10000
        IN  /\ n <= Len(builder.utxos)
            /\ \A k \in 1..n :
                  /\ tx.inputs[k].utxo = builder.utxos[k]
                  /\ tx.inputs[k].previousOutpoint = builder.utxos[k].outpoint
            /\ \A j \in 1..(n - 1) : prefixTotal(builder.utxos, j) < target
            /\ prefixTotal(builder.utxos, n) >= target \/ n = Len(builder.utxos)
            /\ \A j, k \in 1..n :
                  j # k => tx.inputs[j].previousOutpoint # tx.inputs[k].previousOutpoint

\* the first UTXO alone reaches the target exactly, the second is left out
SelectionInOrderWitness ==
    /\ hasBuilt
    /\ builder.built.ok
    /\ Len(builder.utxos) = 2
    /\ builder.utxos[1].amount = 100010000
    /\ builder.utxos[2].amount = 50000000
    /\ builder.amountSompi = 100000000
    /\ Len(builder.built.value.inputs) = 1

(***************************************************************************)
(* C23: the conversion of the display amount is exact: for every accepted  *)
(* amount with at most 8 decimal places kasToSompi returns exactly         *)
(* amount * 10^8, and that integer is the value of output 0 and the        *)
(* amount encoded in the payload.                                          *)
(***************************************************************************)
\* C23: an accepted amount num / den whose den divides 10^8 is converted
\* to num * (10^8 / den) sompi, and the transaction built from it pays that
\* to output 0 and carries it in the payload
ExactConversion ==
    (conversion # NoValue /\ conversion.pc \in {"converted", "built"}
       /\ SOMPI_PER_KAS % conversion.amount.den = 0) =>
        LET exact == conversion.amount.num * (SOMPI_PER_KAS \div conversion.amount.den)
        IN  /\ conversion.amountSompi = exact
            /\ conversion.pc = "built" =>
                  /\ conversion.built.ok
                  /\ conversion.built.value.outputs[1].value = exact
                  /\ decodeEntryPayload(conversion.built.value.payload).value.amountSompi
                        = BigOfInt(exact)

(***************************************************************************)
(* C24: in every transaction buildEntryTransaction returns, the outputs    *)
(* total no more than the selected inputs, and the implied fee (inputs     *)
(* minus outputs) is at least the fixed minimum fee of 10,000 sompi.       *)
(***************************************************************************)
sumValues(outputs) ==
    IF Len(outputs) = 1 THEN outputs[1].value ELSE outputs[1].value + outputs[2].value

\* C24: a built transaction spends at least what it pays out, and leaves
\* at least 10,000 sompi of its inputs unspent as the fee
FeeAtLeastMinimum ==
    (hasBuilt /\ builder.built.ok) =>
        LET tx == builder.built.value
        IN  /\ sumValues(tx.outputs) <= sumAmounts(tx.inputs)
            /\ sumAmounts(tx.inputs) - sumValues(tx.outputs) >= 10000

(***************************************************************************)
(* C25: for every interleaving of initRpcConnection, getUtxos,             *)
(* submitTransaction and disconnectRpc calls, overlapping                  *)
(* initRpcConnection calls included: isConnected is true only while        *)
(* rpcClient refers to a client whose connect has completed, at most one   *)
(* client is created and connected between disconnects, and getUtxos and   *)
(* submitTransaction fail with 'RPC not connected' instead of using an     *)
(* unconnected or absent client.                                           *)
(***************************************************************************)
connectedClients == { c \in 1..Len(rpc.clients) : rpc.clients[c] = "connected" }

\* C25: when isConnected holds rpcClient is a client whose connect() has
\* resolved; no two clients are connected at once; every getUtxos or
\* submitTransaction call that invoked a client invoked a connected one
RpcDiscipline ==
    /\ isConnected => rpcClient # "null" /\ clientState = "connected"
    /\ Cardinality(connectedClients) <= 1
    /\ (rpc.last # NoValue /\ rpc.last.fn \in RpcQueries /\ rpc.last.kind = "used") =>
          rpc.last.state = "connected"

(***************************************************************************)
(* C26: isWasmInitialized is false until an initKaspaWasm call has         *)
(* completed successfully, and a failed initialization leaves it false;    *)
(* while it is false, executeBridgeWithMining, mineTxId and                *)
(* initRpcConnection each fail without creating an RPC client, fetching    *)
(* UTXOs or calling the signer; the UI takes the mining path only when it  *)
(* is true.                                                                *)
(***************************************************************************)
\* C26: the flag is set only once a call of initKaspaWasm has resolved (a
\* call that failed leaves it unset); as long as it is unset there is no
\* RPC client, no connection or UTXO fetch under way, no mining and no
\* signer call, a call of executeBridgeWithMining or mineTxId has been
\* rejected and so has the latest call of initRpcConnection; handleBridge
\* has called executeBridgeWithMining only with the flag set
WasmGate ==
    /\ wasmInitialized => wasmInit = "ready"
    /\ ~wasmInitialized =>
          /\ rpcClient = "null" /\ ~isConnected
          /\ rpc.clients = <<>> /\ rpc.calls = <<>>
          /\ pc \notin {"connecting", "fetching", "mining", "mined", "signing"}
          /\ mining = NoValue /\ miningResult = NoValue /\ signerCalls = <<>>
          /\ (call # NoValue /\ call.entry \in {"executeBridgeWithMining", "mineTxId"}) =>
                pc = "failed" /\ outcome.kind = "rejected"
          /\ (rpc.last # NoValue /\ rpc.last.fn = "initRpcConnection") =>
                rpc.last.kind = "rejected" /\ rpc.last.error = "WasmNotInitialized"
    /\ ui = "mining" => wasmInitialized

\* after an initialization that failed: initRpcConnection has been
\* rejected, and so has the executeBridgeWithMining call, for the flag
WasmGateWitness ==
    /\ wasmInit = "failed"
    /\ ~wasmInitialized
    /\ rpc.last # NoValue
    /\ rpc.last.kind = "rejected"
    /\ call # NoValue
    /\ call.entry = "executeBridgeWithMining"
    /\ rejectedWith("WasmNotInitialized")
    /\ rpcClient = "null"

====
